---- MODULE Spec2Model ----
(***************************************************************************)
(* Physics dispatch engine of RE-storage-model (re_storage.physics).       *)
(*                                                                         *)
(* Quantities of the source are Python floats (kW, kWh, ratios).  They are *)
(* modelled as exact rationals [n |-> numerator, d |-> denominator > 0] in *)
(* lowest terms, and every arithmetic step of the source is carried out    *)
(* step by step on them (multiplication by an efficiency, division by an   *)
(* efficiency, min, max, comparison with a tolerance).                     *)
(***************************************************************************)
EXTENDS Integers, Sequences, FiniteSets, TLC

VARIABLES
    config,            \* the BatteryConfig of the run (frozen dataclass)
    hours_per_step,    \* timestep duration of the run, in hours (step_hours)
    n_hours,           \* number of timesteps of the run's hourly series
    previous_soc_kwh,  \* SoC threaded by the hour loop from one call to the next
    t,                 \* index of the next timestep to dispatch
    call               \* the last call made: operation, arguments, outcome

vars == <<config, hours_per_step, n_hours, previous_soc_kwh, t, call>>

(***************************************************************************)
(* Exact rational arithmetic.                                              *)
(***************************************************************************)
Abs(x) == IF x < 0 THEN -x ELSE x

RECURSIVE GCD(_, _)
GCD(a, b) == IF b = 0 THEN a ELSE GCD(b, a % b)

Q(n, d) ==
    LET g == GCD(Abs(n), Abs(d))
        s == IF d < 0 THEN -1 ELSE 1
    IN  [n |-> (s * n) \div g, d |-> (s * d) \div g]

R(k) == [n |-> k, d |-> 1]

Zero == R(0)

RAdd(x, y) == Q(x.n * y.d + y.n * x.d, x.d * y.d)
RSub(x, y) == Q(x.n * y.d - y.n * x.d, x.d * y.d)
RMul(x, y) == Q(x.n * y.n, x.d * y.d)
RDiv(x, y) == Q(x.n * y.d, x.d * y.n)
RLt(x, y) == x.n * y.d < y.n * x.d
RLe(x, y) == x.n * y.d <= y.n * x.d
RGt(x, y) == RLt(y, x)
RGe(x, y) == RLe(y, x)
RMin(x, y) == IF RLe(x, y) THEN x ELSE y
RMax(x, y) == IF RGe(x, y) THEN x ELSE y
RMin3(x, y, z) == RMin(RMin(x, y), z)
RAbs(x) == [n |-> Abs(x.n), d |-> x.d]

\* An optional value (Python's `x | None`): <<>> is None, <<v>> is the value v.
None == << >>
Some(v) == <<v>>

\* Outcome of a call: a returned value, or a raised exception of some kind.
Ok(v) == [status |-> "ok", value |-> v]
Raise(kind) == [status |-> kind]
\* A returned value together with whether the call emitted logger.warning.
Logged(v, w) == [status |-> "ok", value |-> v, warning |-> w]

(***************************************************************************)
(* battery.py: data structures                                             *)
(***************************************************************************)
StrategyMode == {"ARBITRAGE", "PEAK_SHAVING"}
ChargingMode == {"TIME_WINDOW", "PRECHARGE_TARGET"}
GridChargeMode == {"DISABLED", "TO_TARGET", "TO_FULL"}

\* BatteryConfig.__post_init__: TRUE when construction succeeds.
\* Faulty variant: the upper bound of the discharge efficiency is not checked.
config_valid_unbounded_efficiency(c) ==
    /\ ~ RLe(c.usable_capacity_kwh, Zero)
    /\ ~ RLe(c.power_rating_kw, Zero)
    /\ (RLt(Zero, c.charge_efficiency) /\ RLe(c.charge_efficiency, R(1)))
    /\ RLt(Zero, c.discharge_efficiency)

BatteryConfigValid(c) ==
    /\ ~ RLe(c.usable_capacity_kwh, Zero)
    /\ ~ RLe(c.power_rating_kw, Zero)
    /\ (RLt(Zero, c.charge_efficiency) /\ RLe(c.charge_efficiency, R(1)))
    /\ (RLt(Zero, c.discharge_efficiency) /\ RLe(c.discharge_efficiency, R(1)))

DischargeConditions(wn, as, op, pk) ==
    [when_needed |-> wn, after_sunset |-> as, optimize |-> op, peak |-> pk]

any_active(c) == c.when_needed \/ c.after_sunset \/ c.optimize \/ c.peak

\* Faulty variant: the names are collected from the last condition to the first.
active_list_reversed(c) ==
    (IF c.peak THEN <<"peak">> ELSE << >>)
    \o (IF c.optimize THEN <<"optimize">> ELSE << >>)
    \o (IF c.after_sunset THEN <<"after_sunset">> ELSE << >>)
    \o (IF c.when_needed THEN <<"when_needed">> ELSE << >>)

active_list(c) ==
    (IF c.when_needed THEN <<"when_needed">> ELSE << >>)
    \o (IF c.after_sunset THEN <<"after_sunset">> ELSE << >>)
    \o (IF c.optimize THEN <<"optimize">> ELSE << >>)
    \o (IF c.peak THEN <<"peak">> ELSE << >>)

count_active(c) ==
    (IF c.when_needed THEN 1 ELSE 0) + (IF c.after_sunset THEN 1 ELSE 0)
    + (IF c.optimize THEN 1 ELSE 0) + (IF c.peak THEN 1 ELSE 0)

BatteryState(soc, pv, grid, dis, permitted, active) ==
    [soc_kwh |-> soc, pv_charged_kw |-> pv, grid_charged_kw |-> grid,
     discharged_kw |-> dis, discharge_permitted |-> permitted,
     active_discharge_conditions |-> active]

(***************************************************************************)
(* battery.py: charge calculations                                         *)
(***************************************************************************)
\* Faulty variant: the headroom is multiplied by the efficiency instead of divided.
charge_limit_multiplies_efficiency(current_soc_kwh, max_capacity_kwh, charge_efficiency, step_hours) ==
    IF RLt(current_soc_kwh, Zero) THEN Raise("ValueError")
    ELSE IF RLe(max_capacity_kwh, Zero) THEN Raise("ValueError")
    ELSE IF ~ (RLt(Zero, charge_efficiency) /\ RLe(charge_efficiency, R(1)))
         THEN Raise("ValueError")
    ELSE IF RLe(step_hours, Zero) THEN Raise("ValueError")
    ELSE
        LET available_capacity_kwh == RMax(RSub(max_capacity_kwh, current_soc_kwh), Zero)
            charge_limit_kwh == RMul(available_capacity_kwh, charge_efficiency)
            charge_limit_kw == RDiv(charge_limit_kwh, step_hours)
        IN  Ok(charge_limit_kw)

calculate_charge_limit(current_soc_kwh, max_capacity_kwh, charge_efficiency, step_hours) ==
    IF RLt(current_soc_kwh, Zero) THEN Raise("ValueError")
    ELSE IF RLe(max_capacity_kwh, Zero) THEN Raise("ValueError")
    ELSE IF ~ (RLt(Zero, charge_efficiency) /\ RLe(charge_efficiency, R(1)))
         THEN Raise("ValueError")
    ELSE IF RLe(step_hours, Zero) THEN Raise("ValueError")
    ELSE
        LET available_capacity_kwh == RMax(RSub(max_capacity_kwh, current_soc_kwh), Zero)
            charge_limit_kwh == RDiv(available_capacity_kwh, charge_efficiency)
            charge_limit_kw == RDiv(charge_limit_kwh, step_hours)
        IN  Ok(charge_limit_kw)

\* Faulty variant: takes the larger of the desired charge and the charge limit.
time_window_takes_max(available_for_charging, max_charge_power, hour, cfg, is_peak_period) ==
    LET in_window ==
            IF cfg.charge_start_hour <= cfg.charge_end_hour
            THEN cfg.charge_start_hour <= hour /\ hour <= cfg.charge_end_hour
            ELSE hour >= cfg.charge_start_hour \/ hour <= cfg.charge_end_hour
        desired_charge == RMul(available_for_charging, cfg.active_pv2bess_share)
    IN  IF ~ in_window THEN Zero
        ELSE IF is_peak_period THEN Zero
        ELSE RMax(desired_charge, max_charge_power)

\* Faulty variant: a window with start > end is not recognised as wrapping midnight.
time_window_no_wrap(available_for_charging, max_charge_power, hour, cfg, is_peak_period) ==
    LET in_window == cfg.charge_start_hour <= hour /\ hour <= cfg.charge_end_hour
        desired_charge == RMul(available_for_charging, cfg.active_pv2bess_share)
    IN  IF ~ in_window THEN Zero
        ELSE IF is_peak_period THEN Zero
        ELSE RMin(desired_charge, max_charge_power)

_calculate_pv_to_bess_time_window(available_for_charging, max_charge_power, hour, cfg, is_peak_period) ==
    LET in_window ==
            IF cfg.charge_start_hour <= cfg.charge_end_hour
            THEN cfg.charge_start_hour <= hour /\ hour <= cfg.charge_end_hour
            ELSE hour >= cfg.charge_start_hour \/ hour <= cfg.charge_end_hour
        desired_charge == RMul(available_for_charging, cfg.active_pv2bess_share)
    IN  IF ~ in_window THEN Zero
        ELSE IF is_peak_period THEN Zero
        ELSE RMin(desired_charge, max_charge_power)

\* Faulty variant: the required rate is not divided by the charge efficiency.
precharge_without_efficiency(available_for_charging, max_charge_power, current_soc_kwh, hour, cfg, step_hours) ==
    LET soc_deficit_kwh == RMax(RSub(cfg.precharge_target_soc_kwh, current_soc_kwh), Zero)
        remaining == cfg.precharge_target_hour - hour
        hours_remaining == IF remaining <= 0 THEN 1 ELSE remaining
        required_charge_kw == RDiv(soc_deficit_kwh, R(hours_remaining))
    IN  IF hour >= cfg.precharge_target_hour THEN Zero
        ELSE IF RLe(soc_deficit_kwh, Zero) THEN Zero
        ELSE RMin3(required_charge_kw, available_for_charging, max_charge_power)

_calculate_pv_to_bess_precharge(available_for_charging, max_charge_power, current_soc_kwh, hour, cfg, step_hours) ==
    LET soc_deficit_kwh == RMax(RSub(cfg.precharge_target_soc_kwh, current_soc_kwh), Zero)
        remaining == cfg.precharge_target_hour - hour
        hours_remaining == IF remaining <= 0 THEN 1 ELSE remaining
        required_charge_kw ==
            RDiv(soc_deficit_kwh, RMul(cfg.charge_efficiency, R(hours_remaining)))
    IN  IF hour >= cfg.precharge_target_hour THEN Zero
        ELSE IF RLe(soc_deficit_kwh, Zero) THEN Zero
        ELSE RMin3(required_charge_kw, available_for_charging, max_charge_power)

calculate_pv_to_bess(solar_gen_kw, load_kw, current_soc_kwh, hour, cfg, is_peak_period, step_hours) ==
    IF RLe(solar_gen_kw, Zero) THEN Ok(Zero)
    ELSE
        LET limit == calculate_charge_limit(current_soc_kwh, cfg.usable_capacity_kwh,
                                            cfg.charge_efficiency, step_hours)
        IN  IF limit.status # "ok" THEN limit
            ELSE
                LET max_charge_power == RMin(limit.value, cfg.power_rating_kw)
                    min_pv_to_load == RMul(load_kw, cfg.min_direct_pv_share)
                    available_for_charging ==
                        RMax(RSub(solar_gen_kw, min_pv_to_load), Zero)
                IN  IF RLe(max_charge_power, Zero) THEN Ok(Zero)
                    ELSE IF RLe(available_for_charging, Zero) THEN Ok(Zero)
                    ELSE IF cfg.charging_mode = "TIME_WINDOW"
                         THEN Ok(_calculate_pv_to_bess_time_window(
                                    available_for_charging, max_charge_power, hour, cfg,
                                    is_peak_period))
                    ELSE IF cfg.charging_mode = "PRECHARGE_TARGET"
                         THEN Ok(_calculate_pv_to_bess_precharge(
                                    available_for_charging, max_charge_power,
                                    current_soc_kwh, hour, cfg, step_hours))
                    ELSE Raise("ValueError")

(***************************************************************************)
(* battery.py: discharge permission logic                                  *)
(* The result pairs the DischargeConditions returned with `warning`: TRUE  *)
(* when the call emitted logger.warning about overlapping conditions.      *)
(***************************************************************************)
\* Faulty variant: sunset starts one hour late (hour > 17).
permission_late_sunset(hour, load_kw, solar_gen_kw, grid_load_after_solar_kw, cfg, is_peak_period, is_sunday) ==
    IF cfg.strategy_mode = "PEAK_SHAVING"
    THEN
        LET peak_shaving_needed == RGt(grid_load_after_solar_kw, cfg.demand_target_kw)
        IN  [conditions |-> DischargeConditions(peak_shaving_needed, FALSE, FALSE, FALSE),
             warning |-> FALSE]
    ELSE
        LET conditions ==
                DischargeConditions(
                    cfg.when_needed /\ RGt(load_kw, solar_gen_kw),
                    cfg.after_sunset /\ (hour > 17),
                    cfg.optimize_mode
                        /\ ((cfg.optimize_start_hour <= hour /\ hour <= cfg.optimize_end_hour)
                            \/ is_peak_period),
                    cfg.peak_mode
                        /\ (is_peak_period
                            \/ (is_sunday
                                /\ (cfg.sunday_peak_start_hour <= hour
                                    /\ hour <= cfg.sunday_peak_end_hour))))
        IN  [conditions |-> conditions, warning |-> count_active(conditions) > 1]

\* Faulty variant: peak shaving permits discharge at the demand target (>=).
permission_at_target(hour, load_kw, solar_gen_kw, grid_load_after_solar_kw, cfg, is_peak_period, is_sunday) ==
    IF cfg.strategy_mode = "PEAK_SHAVING"
    THEN
        LET peak_shaving_needed == RGe(grid_load_after_solar_kw, cfg.demand_target_kw)
        IN  [conditions |-> DischargeConditions(peak_shaving_needed, FALSE, FALSE, FALSE),
             warning |-> FALSE]
    ELSE
        LET conditions ==
                DischargeConditions(
                    cfg.when_needed /\ RGt(load_kw, solar_gen_kw),
                    cfg.after_sunset /\ (hour >= 17),
                    cfg.optimize_mode
                        /\ ((cfg.optimize_start_hour <= hour /\ hour <= cfg.optimize_end_hour)
                            \/ is_peak_period),
                    cfg.peak_mode
                        /\ (is_peak_period
                            \/ (is_sunday
                                /\ (cfg.sunday_peak_start_hour <= hour
                                    /\ hour <= cfg.sunday_peak_end_hour))))
        IN  [conditions |-> conditions, warning |-> count_active(conditions) > 1]

\* Faulty variant: an overlap of conditions is treated as a conflict and no
\* condition is reported.
permission_overlap_blocks(hour, load_kw, solar_gen_kw, grid_load_after_solar_kw, cfg, is_peak_period, is_sunday) ==
    IF cfg.strategy_mode = "PEAK_SHAVING"
    THEN
        LET peak_shaving_needed == RGt(grid_load_after_solar_kw, cfg.demand_target_kw)
        IN  [conditions |-> DischargeConditions(peak_shaving_needed, FALSE, FALSE, FALSE),
             warning |-> FALSE]
    ELSE
        LET conditions ==
                DischargeConditions(
                    cfg.when_needed /\ RGt(load_kw, solar_gen_kw),
                    cfg.after_sunset /\ (hour >= 17),
                    cfg.optimize_mode
                        /\ ((cfg.optimize_start_hour <= hour /\ hour <= cfg.optimize_end_hour)
                            \/ is_peak_period),
                    cfg.peak_mode
                        /\ (is_peak_period
                            \/ (is_sunday
                                /\ (cfg.sunday_peak_start_hour <= hour
                                    /\ hour <= cfg.sunday_peak_end_hour))))
        IN  IF count_active(conditions) > 1
            THEN [conditions |-> DischargeConditions(FALSE, FALSE, FALSE, FALSE),
                  warning |-> TRUE]
            ELSE [conditions |-> conditions, warning |-> FALSE]

evaluate_discharge_permission(hour, load_kw, solar_gen_kw, grid_load_after_solar_kw, cfg, is_peak_period, is_sunday) ==
    IF cfg.strategy_mode = "PEAK_SHAVING"
    THEN
        LET peak_shaving_needed == RGt(grid_load_after_solar_kw, cfg.demand_target_kw)
        IN  [conditions |-> DischargeConditions(peak_shaving_needed, FALSE, FALSE, FALSE),
             warning |-> FALSE]
    ELSE
        LET conditions ==
                DischargeConditions(
                    cfg.when_needed /\ RGt(load_kw, solar_gen_kw),
                    cfg.after_sunset /\ (hour >= 17),
                    cfg.optimize_mode
                        /\ ((cfg.optimize_start_hour <= hour /\ hour <= cfg.optimize_end_hour)
                            \/ is_peak_period),
                    cfg.peak_mode
                        /\ (is_peak_period
                            \/ (is_sunday
                                /\ (cfg.sunday_peak_start_hour <= hour
                                    /\ hour <= cfg.sunday_peak_end_hour))))
        IN  [conditions |-> conditions, warning |-> count_active(conditions) > 1]

(***************************************************************************)
(* battery.py: discharge calculations                                      *)
(***************************************************************************)
\* Faulty variant: the deliverable energy is not reduced by the discharge efficiency.
discharge_power_without_efficiency(load_kw, solar_gen_kw, pv_to_bess_kw, current_soc_kwh, cfg, discharge_permitted, step_hours) ==
    LET pv_available_for_load == RMax(RSub(solar_gen_kw, pv_to_bess_kw), Zero)
        unmet_load_kw == RMax(RSub(load_kw, pv_available_for_load), Zero)
        max_discharge_from_soc_kw == RDiv(current_soc_kwh, step_hours)
        max_discharge_kw == RMin(max_discharge_from_soc_kw, cfg.power_rating_kw)
    IN  IF ~ discharge_permitted THEN Zero
        ELSE IF RLe(current_soc_kwh, Zero) THEN Zero
        ELSE IF RLe(unmet_load_kw, Zero) THEN Zero
        ELSE RMin(unmet_load_kw, max_discharge_kw)

calculate_discharge_power(load_kw, solar_gen_kw, pv_to_bess_kw, current_soc_kwh, cfg, discharge_permitted, step_hours) ==
    LET pv_available_for_load == RMax(RSub(solar_gen_kw, pv_to_bess_kw), Zero)
        unmet_load_kw == RMax(RSub(load_kw, pv_available_for_load), Zero)
        max_discharge_from_soc_kwh == RMul(current_soc_kwh, cfg.discharge_efficiency)
        max_discharge_from_soc_kw == RDiv(max_discharge_from_soc_kwh, step_hours)
        max_discharge_kw == RMin(max_discharge_from_soc_kw, cfg.power_rating_kw)
    IN  IF ~ discharge_permitted THEN Zero
        ELSE IF RLe(current_soc_kwh, Zero) THEN Zero
        ELSE IF RLe(unmet_load_kw, Zero) THEN Zero
        ELSE RMin(unmet_load_kw, max_discharge_kw)

\* Faulty variant: the max_power_kw override is ignored.
grid_charge_ignores_override(current_soc_kwh, cfg, step_hours, max_power_kw) ==
    IF cfg.grid_charge_mode = "DISABLED" THEN Zero
    ELSE IF cfg.grid_charge_mode \notin {"TO_TARGET", "TO_FULL"} THEN Zero
    ELSE
        LET target_kwh ==
                IF cfg.grid_charge_mode = "TO_TARGET"
                THEN cfg.grid_charge_capacity_kw
                ELSE cfg.usable_capacity_kwh
            charge_needed_kwh == RMax(RSub(target_kwh, current_soc_kwh), Zero)
            charge_rate_kw ==
                RDiv(charge_needed_kwh, RMul(cfg.charge_efficiency, step_hours))
        IN  IF RLe(charge_needed_kwh, Zero) THEN Zero
            ELSE RMin3(charge_rate_kw, cfg.grid_charge_capacity_kw, cfg.power_rating_kw)

\* Faulty variant: the targets of TO_TARGET and TO_FULL are exchanged.
grid_charge_swapped_targets(current_soc_kwh, cfg, step_hours, max_power_kw) ==
    IF cfg.grid_charge_mode = "DISABLED" THEN Zero
    ELSE IF cfg.grid_charge_mode \notin {"TO_TARGET", "TO_FULL"} THEN Zero
    ELSE
        LET target_kwh ==
                IF cfg.grid_charge_mode = "TO_FULL"
                THEN cfg.grid_charge_capacity_kw
                ELSE cfg.usable_capacity_kwh
            charge_needed_kwh == RMax(RSub(target_kwh, current_soc_kwh), Zero)
            charge_rate_kw ==
                RDiv(charge_needed_kwh, RMul(cfg.charge_efficiency, step_hours))
            power_limit_kw ==
                IF max_power_kw # None
                THEN RMin(cfg.power_rating_kw, max_power_kw[1])
                ELSE cfg.power_rating_kw
        IN  IF RLe(charge_needed_kwh, Zero) THEN Zero
            ELSE RMin3(charge_rate_kw, cfg.grid_charge_capacity_kw, power_limit_kw)

\* max_power_kw is optional: None, or Some(limit).
calculate_grid_charge_power(current_soc_kwh, cfg, step_hours, max_power_kw) ==
    IF cfg.grid_charge_mode = "DISABLED" THEN Zero
    ELSE IF cfg.grid_charge_mode \notin {"TO_TARGET", "TO_FULL"} THEN Zero
    ELSE
        LET target_kwh ==
                IF cfg.grid_charge_mode = "TO_TARGET"
                THEN cfg.grid_charge_capacity_kw
                ELSE cfg.usable_capacity_kwh
            charge_needed_kwh == RMax(RSub(target_kwh, current_soc_kwh), Zero)
            charge_rate_kw ==
                RDiv(charge_needed_kwh, RMul(cfg.charge_efficiency, step_hours))
            power_limit_kw ==
                IF max_power_kw # None
                THEN RMin(cfg.power_rating_kw, max_power_kw[1])
                ELSE cfg.power_rating_kw
        IN  IF RLe(charge_needed_kwh, Zero) THEN Zero
            ELSE RMin3(charge_rate_kw, cfg.grid_charge_capacity_kw, power_limit_kw)

(***************************************************************************)
(* battery.py: state of charge update                                      *)
(***************************************************************************)
\* tolerance = 0.01 (10 Wh), battery.py line 629
SocTolerance == Q(1, 100)

\* Faulty variant: no clipping.
clip_omitted(x, lo, hi) == x

\* np.clip(x, lo, hi)
Clip(x, lo, hi) == RMin(RMax(x, lo), hi)

\* The outcome of raising SoCBoundsError with its three attributes.
SoCBoundsError(soc, capacity, timestep) ==
    [status |-> "SoCBoundsError", soc_kwh |-> soc, max_capacity_kwh |-> capacity,
     timestep |-> timestep]

\* Faulty variant: the unbounded value is returned, neither checked nor clipped.
update_soc_unchecked(prev_soc_kwh, pv_charged_kw, grid_charged_kw, discharged_kw, cfg, step_hours, timestep) ==
    LET total_charged_kwh == RMul(RAdd(pv_charged_kw, grid_charged_kw), step_hours)
        discharged_kwh == RMul(discharged_kw, step_hours)
        energy_stored_kwh == RMul(total_charged_kwh, cfg.charge_efficiency)
        energy_extracted_kwh == RDiv(discharged_kwh, cfg.discharge_efficiency)
    IN  Ok(RSub(RAdd(prev_soc_kwh, energy_stored_kwh), energy_extracted_kwh))

\* Faulty variant: every excursion is clamped silently, none raises.
update_soc_silent_clamp(prev_soc_kwh, pv_charged_kw, grid_charged_kw, discharged_kw, cfg, step_hours, timestep) ==
    LET total_charged_kwh == RMul(RAdd(pv_charged_kw, grid_charged_kw), step_hours)
        discharged_kwh == RMul(discharged_kw, step_hours)
        energy_stored_kwh == RMul(total_charged_kwh, cfg.charge_efficiency)
        energy_extracted_kwh == RDiv(discharged_kwh, cfg.discharge_efficiency)
        new_soc_unbounded ==
            RSub(RAdd(prev_soc_kwh, energy_stored_kwh), energy_extracted_kwh)
    IN  Ok(Clip(new_soc_unbounded, Zero, cfg.usable_capacity_kwh))

\* Faulty variant: the extracted energy is the delivered energy times the
\* discharge efficiency (the loss has the wrong direction).
update_soc_multiplies(prev_soc_kwh, pv_charged_kw, grid_charged_kw, discharged_kw, cfg, step_hours, timestep) ==
    LET total_charged_kwh == RMul(RAdd(pv_charged_kw, grid_charged_kw), step_hours)
        discharged_kwh == RMul(discharged_kw, step_hours)
        energy_stored_kwh == RMul(total_charged_kwh, cfg.charge_efficiency)
        energy_extracted_kwh == RMul(discharged_kwh, cfg.discharge_efficiency)
        new_soc_unbounded ==
            RSub(RAdd(prev_soc_kwh, energy_stored_kwh), energy_extracted_kwh)
    IN  IF RLt(new_soc_unbounded, RSub(Zero, SocTolerance))
        THEN SoCBoundsError(new_soc_unbounded, cfg.usable_capacity_kwh, timestep)
        ELSE IF RGt(new_soc_unbounded, RAdd(cfg.usable_capacity_kwh, SocTolerance))
        THEN SoCBoundsError(new_soc_unbounded, cfg.usable_capacity_kwh, timestep)
        ELSE Ok(Clip(new_soc_unbounded, Zero, cfg.usable_capacity_kwh))

update_soc(prev_soc_kwh, pv_charged_kw, grid_charged_kw, discharged_kw, cfg, step_hours, timestep) ==
    LET total_charged_kwh == RMul(RAdd(pv_charged_kw, grid_charged_kw), step_hours)
        discharged_kwh == RMul(discharged_kw, step_hours)
        energy_stored_kwh == RMul(total_charged_kwh, cfg.charge_efficiency)
        energy_extracted_kwh == RDiv(discharged_kwh, cfg.discharge_efficiency)
        new_soc_unbounded ==
            RSub(RAdd(prev_soc_kwh, energy_stored_kwh), energy_extracted_kwh)
    IN  IF RLt(new_soc_unbounded, RSub(Zero, SocTolerance))
        THEN SoCBoundsError(new_soc_unbounded, cfg.usable_capacity_kwh, timestep)
        ELSE IF RGt(new_soc_unbounded, RAdd(cfg.usable_capacity_kwh, SocTolerance))
        THEN SoCBoundsError(new_soc_unbounded, cfg.usable_capacity_kwh, timestep)
        ELSE Ok(Clip(new_soc_unbounded, Zero, cfg.usable_capacity_kwh))

(***************************************************************************)
(* battery.py: single timestep dispatch                                    *)
(* The outcome is [status |-> "ok", value |-> BatteryState], or the        *)
(* exception that left the call; `warning` tells whether step 4 logged the *)
(* overlap warning of evaluate_discharge_permission.                       *)
(***************************************************************************)
\* Faulty variant: step 6 starts from the post-charge estimate, not the original SoC.
dispatch_commits_estimate(solar_gen_kw, load_kw, prev_soc_kwh, hour, cfg, is_peak_period, is_sunday, step_hours, timestep) ==
    LET pv == calculate_pv_to_bess(solar_gen_kw, load_kw, prev_soc_kwh, hour, cfg,
                                   is_peak_period, step_hours)
    IN  IF pv.status # "ok" THEN pv
        ELSE
        LET pv_to_bess_kw == pv.value
            \* Step 2
            pv_charged_kwh == RMul(RMul(pv_to_bess_kw, step_hours), cfg.charge_efficiency)
            soc_after_pv == RMin(RAdd(prev_soc_kwh, pv_charged_kwh), cfg.usable_capacity_kwh)
            remaining_power_kw == RMax(RSub(cfg.power_rating_kw, pv_to_bess_kw), Zero)
            grid_charge_kw ==
                calculate_grid_charge_power(soc_after_pv, cfg, step_hours,
                                            Some(remaining_power_kw))
            \* Step 3
            total_charged_kwh == RMul(RAdd(pv_to_bess_kw, grid_charge_kw), step_hours)
            soc_after_charge ==
                RMin(RAdd(prev_soc_kwh, RMul(total_charged_kwh, cfg.charge_efficiency)),
                     cfg.usable_capacity_kwh)
            \* Step 4
            grid_load_after_solar ==
                RMax(RSub(load_kw, RSub(solar_gen_kw, pv_to_bess_kw)), Zero)
            perm == evaluate_discharge_permission(hour, load_kw, solar_gen_kw,
                                                  grid_load_after_solar, cfg,
                                                  is_peak_period, is_sunday)
            conditions == perm.conditions
            \* Step 5
            discharge_kw ==
                calculate_discharge_power(load_kw, solar_gen_kw, pv_to_bess_kw,
                                          soc_after_charge, cfg, any_active(conditions),
                                          step_hours)
            \* Step 6
            final_soc == update_soc(soc_after_charge, pv_to_bess_kw, grid_charge_kw,
                                    discharge_kw, cfg, step_hours, timestep)
        IN  IF final_soc.status # "ok" THEN final_soc
            ELSE Logged(BatteryState(final_soc.value, pv_to_bess_kw, grid_charge_kw,
                                     discharge_kw, any_active(conditions),
                                     active_list(conditions)),
                        perm.warning)

dispatch_single_timestep(solar_gen_kw, load_kw, prev_soc_kwh, hour, cfg, is_peak_period, is_sunday, step_hours, timestep) ==
    LET pv == calculate_pv_to_bess(solar_gen_kw, load_kw, prev_soc_kwh, hour, cfg,
                                   is_peak_period, step_hours)
    IN  IF pv.status # "ok" THEN pv
        ELSE
        LET pv_to_bess_kw == pv.value
            \* Step 2
            pv_charged_kwh == RMul(RMul(pv_to_bess_kw, step_hours), cfg.charge_efficiency)
            soc_after_pv == RMin(RAdd(prev_soc_kwh, pv_charged_kwh), cfg.usable_capacity_kwh)
            remaining_power_kw == RMax(RSub(cfg.power_rating_kw, pv_to_bess_kw), Zero)
            grid_charge_kw ==
                calculate_grid_charge_power(soc_after_pv, cfg, step_hours,
                                            Some(remaining_power_kw))
            \* Step 3
            total_charged_kwh == RMul(RAdd(pv_to_bess_kw, grid_charge_kw), step_hours)
            soc_after_charge ==
                RMin(RAdd(prev_soc_kwh, RMul(total_charged_kwh, cfg.charge_efficiency)),
                     cfg.usable_capacity_kwh)
            \* Step 4
            grid_load_after_solar ==
                RMax(RSub(load_kw, RSub(solar_gen_kw, pv_to_bess_kw)), Zero)
            perm == evaluate_discharge_permission(hour, load_kw, solar_gen_kw,
                                                  grid_load_after_solar, cfg,
                                                  is_peak_period, is_sunday)
            conditions == perm.conditions
            \* Step 5
            discharge_kw ==
                calculate_discharge_power(load_kw, solar_gen_kw, pv_to_bess_kw,
                                          soc_after_charge, cfg, any_active(conditions),
                                          step_hours)
            \* Step 6
            final_soc == update_soc(prev_soc_kwh, pv_to_bess_kw, grid_charge_kw,
                                    discharge_kw, cfg, step_hours, timestep)
        IN  IF final_soc.status # "ok" THEN final_soc
            ELSE Logged(BatteryState(final_soc.value, pv_to_bess_kw, grid_charge_kw,
                                     discharge_kw, any_active(conditions),
                                     active_list(conditions)),
                        perm.warning)

(***************************************************************************)
(* solar.py: generation-side series                                        *)
(***************************************************************************)
calculate_direct_pv_consumption(solar_gen_kw, load_kw, pv_to_bess_kw) ==
    IF RLt(solar_gen_kw, Zero) THEN Raise("ValueError")
    ELSE IF RLt(load_kw, Zero) THEN Raise("ValueError")
    ELSE IF RLt(pv_to_bess_kw, Zero) THEN Raise("ValueError")
    ELSE
        LET available_for_load == RMax(RSub(solar_gen_kw, pv_to_bess_kw), Zero)
        IN  Ok(RMin(load_kw, available_for_load))

\* Faulty variant: a negative surplus is clamped to 0 without any error.
surplus_silently_clamped(solar_gen_kw, direct_consumption_kw, pv_charged_kw) ==
    IF RLt(solar_gen_kw, Zero) THEN Raise("ValueError")
    ELSE IF RLt(direct_consumption_kw, Zero) THEN Raise("ValueError")
    ELSE IF RLt(pv_charged_kw, Zero) THEN Raise("ValueError")
    ELSE
        LET surplus == RSub(RSub(solar_gen_kw, direct_consumption_kw), pv_charged_kw)
        IN  Ok(RMax(surplus, Zero))

calculate_surplus_generation(solar_gen_kw, direct_consumption_kw, pv_charged_kw) ==
    IF RLt(solar_gen_kw, Zero) THEN Raise("ValueError")
    ELSE IF RLt(direct_consumption_kw, Zero) THEN Raise("ValueError")
    ELSE IF RLt(pv_charged_kw, Zero) THEN Raise("ValueError")
    ELSE
        LET surplus == RSub(RSub(solar_gen_kw, direct_consumption_kw), pv_charged_kw)
        IN  IF RLt(surplus, Q(-1, 1000)) THEN Raise("ValueError")
            ELSE Ok(RMax(surplus, Zero))

(***************************************************************************)
(* balance.py: invariant validators (scalar forms)                         *)
(***************************************************************************)
\* Default of validate_energy_balance's tolerance argument: 0.001 kWh.
BalanceTolerance == Q(1, 1000)

\* Returns None (status "ok") or raises EnergyBalanceError.
validate_energy_balance(solar_gen_kwh, direct_consumption_kwh, charged_kwh, surplus_kwh, tolerance, timestep) ==
    LET total_accounted == RAdd(RAdd(direct_consumption_kwh, charged_kwh), surplus_kwh)
        imbalance == RSub(solar_gen_kwh, total_accounted)
    IN  IF RGt(RAbs(imbalance), tolerance)
        THEN [status |-> "EnergyBalanceError", imbalance_kwh |-> imbalance,
              timestep |-> timestep]
        ELSE [status |-> "ok"]

(***************************************************************************)
(* balance.py: invariant validators (whole-trace forms).  A numpy array is *)
(* a sequence; numpy's indices start at 0, the sequence's at 1.            *)
(***************************************************************************)
\* np.any(mask)
NpAny(mask) == \E i \in 1 .. Len(mask) : mask[i]

\* np.sum(mask) of a boolean array
NpSum(mask) == Cardinality({i \in 1 .. Len(mask) : mask[i]})

\* int(np.argmax(mask)) of a boolean array holding a True: the 0-based index of
\* its first True.
NpArgmax(mask) ==
    (CHOOSE i \in 1 .. Len(mask) : mask[i] /\ \A j \in 1 .. (i - 1) : ~ mask[j]) - 1

\* np.max(a) and np.min(a) of a non-empty array
NpMax(a) == CHOOSE x \in {a[i] : i \in 1 .. Len(a)} : \A i \in 1 .. Len(a) : RGe(x, a[i])
NpMin(a) == CHOOSE x \in {a[i] : i \in 1 .. Len(a)} : \A i \in 1 .. Len(a) : RLe(x, a[i])

\* Faulty variant: the scan stops at the first violation, so one violation is
\* reported however many there are.
energy_balance_short_circuit(solar_gen_kwh, direct_consumption_kwh, charged_kwh, surplus_kwh, tolerance) ==
    LET n == Len(solar_gen_kwh)
        imbalance ==
            [i \in 1 .. n |->
                RSub(solar_gen_kwh[i],
                     RAdd(RAdd(direct_consumption_kwh[i], charged_kwh[i]), surplus_kwh[i]))]
        violations == [i \in 1 .. n |-> RGt(RAbs(imbalance[i]), tolerance)]
    IN  IF NpAny(violations)
        THEN [status |-> "EnergyBalanceError",
              imbalance_kwh |-> RAbs(imbalance[NpArgmax(violations) + 1]),
              timestep |-> Some(NpArgmax(violations)),
              violation_count |-> 1,
              first_imbalance |-> imbalance[NpArgmax(violations) + 1]]
        ELSE [status |-> "ok"]

\* Returns None (status "ok") or raises EnergyBalanceError; violation_count and
\* first_imbalance are the two figures of the error message.
validate_energy_balance_vectorized(solar_gen_kwh, direct_consumption_kwh, charged_kwh, surplus_kwh, tolerance) ==
    LET n == Len(solar_gen_kwh)
        imbalance ==
            [i \in 1 .. n |->
                RSub(solar_gen_kwh[i],
                     RAdd(RAdd(direct_consumption_kwh[i], charged_kwh[i]), surplus_kwh[i]))]
        violations == [i \in 1 .. n |-> RGt(RAbs(imbalance[i]), tolerance)]
    IN  IF NpAny(violations)
        THEN [status |-> "EnergyBalanceError",
              imbalance_kwh |-> NpMax([i \in 1 .. n |-> RAbs(imbalance[i])]),
              timestep |-> Some(NpArgmax(violations)),
              violation_count |-> NpSum(violations),
              first_imbalance |-> imbalance[NpArgmax(violations) + 1]]
        ELSE [status |-> "ok"]

\* Returns None (status "ok") or raises SoCBoundsError.
validate_soc_bounds(soc_kwh, max_capacity_kwh, timestep, tolerance) ==
    IF RLt(soc_kwh, RSub(Zero, tolerance))
    THEN SoCBoundsError(soc_kwh, max_capacity_kwh, timestep)
    ELSE IF RGt(soc_kwh, RAdd(max_capacity_kwh, tolerance))
    THEN SoCBoundsError(soc_kwh, max_capacity_kwh, timestep)
    ELSE [status |-> "ok"]

\* Returns None (status "ok") or raises SoCBoundsError; violation_count is the
\* number of timesteps given in the error message.
validate_soc_bounds_vectorized(soc_kwh, max_capacity_kwh, tolerance) ==
    LET n == Len(soc_kwh)
        too_low == [i \in 1 .. n |-> RLt(soc_kwh[i], RSub(Zero, tolerance))]
        too_high == [i \in 1 .. n |-> RGt(soc_kwh[i], RAdd(max_capacity_kwh, tolerance))]
    IN  IF NpAny(too_low)
        THEN [status |-> "SoCBoundsError", soc_kwh |-> NpMin(soc_kwh),
              max_capacity_kwh |-> max_capacity_kwh,
              timestep |-> Some(NpArgmax(too_low)),
              violation_count |-> NpSum(too_low)]
        ELSE IF NpAny(too_high)
        THEN [status |-> "SoCBoundsError", soc_kwh |-> NpMax(soc_kwh),
              max_capacity_kwh |-> max_capacity_kwh,
              timestep |-> Some(NpArgmax(too_high)),
              violation_count |-> NpSum(too_high)]
        ELSE [status |-> "ok"]

\* The outcome of raising InsufficientCapacityError with its two attributes.
InsufficientCapacityError(requested, available) ==
    [status |-> "InsufficientCapacityError", requested_kw |-> requested,
     available_kw |-> available]

\* Faulty variant: the tolerance is added to the rating as kW instead of being
\* applied as a ratio.
power_rating_absolute_tolerance(power_kw, max_rating_kw, timestep, tolerance) ==
    IF RLe(max_rating_kw, Zero) THEN Raise("ValueError")
    ELSE
        LET allowable_max == RAdd(max_rating_kw, tolerance)
        IN  IF RGt(power_kw, allowable_max)
            THEN InsufficientCapacityError(power_kw, max_rating_kw)
            ELSE [status |-> "ok"]

\* Returns None (status "ok") or raises; equipment_name only words the message.
validate_power_rating(power_kw, max_rating_kw, timestep, tolerance) ==
    IF RLe(max_rating_kw, Zero) THEN Raise("ValueError")
    ELSE
        LET allowable_max == RMul(max_rating_kw, RAdd(R(1), tolerance))
        IN  IF RGt(power_kw, allowable_max)
            THEN InsufficientCapacityError(power_kw, max_rating_kw)
            ELSE [status |-> "ok"]

(***************************************************************************)
(* Bounds of the model and the inputs drawn within them.                   *)
(***************************************************************************)
\* Longest dispatch trace explored.
MaxSteps == 2
\* Power inputs are the multiples 0..MaxLevel of a unit.
MaxLevel == 2
\* Starting SoCs are the multiples 0..SocSteps of capacity/SocSteps.
SocSteps == 4
\* Longest array handed to a whole-trace validator.
MaxArrayLen == 3
\* Longest trace explored when a battery is drained under constant load.
MaxDrainSteps == 12

Levels(unit) == {RMul(unit, R(k)) : k \in 0 .. MaxLevel}
SocGrid(capacity, k) == {RDiv(RMul(capacity, R(i)), R(k)) : i \in 0 .. k}

\* A 10 kWh / 4 kW battery; the other fields are those of the test fixture
\* default_battery_config (tests/conftest.py).
BaseConfig ==
    [usable_capacity_kwh |-> R(10), power_rating_kw |-> R(4),
     charge_efficiency |-> Q(4, 5), discharge_efficiency |-> Q(1, 2),
     strategy_mode |-> "ARBITRAGE", charging_mode |-> "TIME_WINDOW",
     charge_start_hour |-> 9, charge_end_hour |-> 15,
     precharge_target_hour |-> 17, precharge_target_soc_kwh |-> R(8),
     min_direct_pv_share |-> Zero, active_pv2bess_share |-> R(1),
     demand_target_kw |-> R(3),
     grid_charge_mode |-> "DISABLED", grid_charge_capacity_kw |-> Zero,
     when_needed |-> TRUE, after_sunset |-> FALSE, optimize_mode |-> FALSE,
     peak_mode |-> TRUE,
     optimize_start_hour |-> 16, optimize_end_hour |-> 21,
     sunday_peak_start_hour |-> 17, sunday_peak_end_hour |-> 20]

\* <<charge_efficiency, discharge_efficiency>>
EfficiencyPairs == {<<R(1), R(1)>>, <<Q(4, 5), Q(1, 2)>>}
\* <<min_direct_pv_share, active_pv2bess_share>>
SharePairs == {<<Zero, R(1)>>, <<Q(1, 2), Q(1, 2)>>}
\* <<grid_charge_mode, grid_charge_capacity_kw>>
GridOptions ==
    {<<"DISABLED", Zero>>, <<"TO_TARGET", R(6)>>, <<"TO_TARGET", R(12)>>, <<"TO_FULL", R(2)>>}

\* Configurations of single dispatch steps.
StepConfigs ==
    {[BaseConfig EXCEPT !.strategy_mode = sm, !.charging_mode = cm,
                        !.power_rating_kw = pr,
                        !.charge_efficiency = e[1], !.discharge_efficiency = e[2],
                        !.min_direct_pv_share = sh[1], !.active_pv2bess_share = sh[2],
                        !.grid_charge_mode = g[1], !.grid_charge_capacity_kw = g[2]] :
        sm \in StrategyMode, cm \in ChargingMode, pr \in {R(4), R(20)},
        e \in EfficiencyPairs, sh \in SharePairs, g \in GridOptions}

\* Configurations of dispatch traces.
TraceConfigs ==
    {[BaseConfig EXCEPT !.strategy_mode = sm, !.charging_mode = cm,
                        !.min_direct_pv_share = Q(1, 2), !.active_pv2bess_share = Q(1, 2),
                        !.grid_charge_mode = g[1], !.grid_charge_capacity_kw = g[2]] :
        sm \in StrategyMode, cm \in ChargingMode,
        g \in {<<"DISABLED", Zero>>, <<"TO_TARGET", R(12)>>, <<"TO_FULL", R(2)>>}}

SolarInputs == Levels(R(4))
LoadInputs == Levels(R(3))
HourInputs == {4, 10, 16, 18, 23}
TraceSolarInputs == {Zero, R(4), R(8)}
TraceLoadInputs == {Zero, R(3), R(6)}
TraceHourInputs == {10, 18}

NoCall == [op |-> "none", result |-> [status |-> "ok"]]

\* Initial state of a run of n timesteps with one of the configurations cfgs,
\* starting at one of the SoCs capacity*i/k.
InitRun(cfgs, steps, n, k) ==
    /\ config \in cfgs
    /\ BatteryConfigValid(config)
    /\ hours_per_step \in steps
    /\ n_hours = n
    /\ previous_soc_kwh \in SocGrid(config.usable_capacity_kwh, k)
    /\ t = 0
    /\ call = NoCall

(***************************************************************************)
(* The hour loop: one dispatch_single_timestep call per timestep, each     *)
(* given the SoC the previous call returned.  An exception leaves the loop.*)
(***************************************************************************)
DispatchWith(solars, loads, hours) ==
    /\ t < n_hours
    /\ call.op \in {"none", "dispatch_single_timestep"}
    /\ call.result.status = "ok"
    /\ \E solar_gen_kw \in solars, load_kw \in loads, hour \in hours,
          is_peak_period \in BOOLEAN, is_sunday \in BOOLEAN :
          \E r \in {dispatch_single_timestep(solar_gen_kw, load_kw, previous_soc_kwh, hour,
                                             config, is_peak_period, is_sunday,
                                             hours_per_step, Some(t))} :
              /\ call' = [op |-> "dispatch_single_timestep",
                          solar_gen_kw |-> solar_gen_kw, load_kw |-> load_kw,
                          previous_soc_kwh |-> previous_soc_kwh, hour |-> hour,
                          is_peak_period |-> is_peak_period, is_sunday |-> is_sunday,
                          step_hours |-> hours_per_step, timestep |-> Some(t), result |-> r]
              /\ previous_soc_kwh' =
                     IF r.status = "ok" THEN r.value.soc_kwh ELSE previous_soc_kwh
              /\ t' = IF r.status = "ok" THEN t + 1 ELSE t
    /\ UNCHANGED <<config, hours_per_step, n_hours>>

\* A trace of up to MaxSteps timesteps.
Dispatch == DispatchWith(TraceSolarInputs, TraceLoadInputs, TraceHourInputs)

Init == InitRun(TraceConfigs, {R(1)}, MaxSteps, 2)

Next == Dispatch

Spec == Init /\ [][Next]_vars

\* One timestep, from any SoC of the grid, over the wider configurations.
DispatchStep == DispatchWith(SolarInputs, LoadInputs, HourInputs)

InitStep == InitRun(StepConfigs, {Q(1, 2), R(1)}, 1, SocSteps)

NextStep == DispatchStep

SpecStep == InitStep /\ [][NextStep]_vars

(***************************************************************************)
(* Direct calls of the engine's functions, as the unit tests make them:    *)
(* one call from the initial state, its arguments and outcome recorded.    *)
(***************************************************************************)
\* Initial state before a direct call on one of the configurations cfgs.
InitCall(cfgs) ==
    /\ config \in cfgs
    /\ BatteryConfigValid(config)
    /\ hours_per_step = R(1)
    /\ n_hours = 0
    /\ previous_soc_kwh = Zero
    /\ t = 0
    /\ call = NoCall

\* Values around the 0.01 kWh tolerance of update_soc.
NearTolerance == {Q(1, 200), Q(1, 100), Q(1, 50)}
StepHoursInputs == {Q(1, 2), R(1), R(2)}

\* ---- update_soc ----
UpdateSocConfigs ==
    {[BaseConfig EXCEPT !.charge_efficiency = e[1], !.discharge_efficiency = e[2]] :
        e \in EfficiencyPairs}

UpdateSocCall ==
    /\ call = NoCall
    /\ \E prev \in SocGrid(config.usable_capacity_kwh, SocSteps) \cup {Q(-1, 200), R(11)},
          pv \in Levels(R(2)) \cup NearTolerance,
          grid \in {Zero, Q(1, 100), R(3)},
          dis \in Levels(R(3)) \cup NearTolerance,
          sh \in StepHoursInputs,
          ts \in {None, Some(0), Some(7)} :
          call' = [op |-> "update_soc", previous_soc_kwh |-> prev, pv_charged_kw |-> pv,
                   grid_charged_kw |-> grid, discharged_kw |-> dis, step_hours |-> sh,
                   timestep |-> ts,
                   result |-> update_soc(prev, pv, grid, dis, config, sh, ts)]
    /\ UNCHANGED <<config, hours_per_step, n_hours, previous_soc_kwh, t>>

InitUpdateSoc == InitCall(UpdateSocConfigs)

SpecUpdateSoc == InitUpdateSoc /\ [][UpdateSocCall]_vars

\* ---- calculate_discharge_power ----
DischargeConfigs ==
    {[BaseConfig EXCEPT !.power_rating_kw = pr, !.discharge_efficiency = de] :
        pr \in {R(4), R(20)}, de \in {Q(1, 2), Q(4, 5), R(1)}}

DischargePowerCall ==
    /\ call = NoCall
    /\ \E load \in Levels(R(3)), solar \in Levels(R(4)), pv \in Levels(R(2)),
          soc \in SocGrid(config.usable_capacity_kwh, SocSteps), permitted \in BOOLEAN,
          sh \in StepHoursInputs :
          call' = [op |-> "calculate_discharge_power", load_kw |-> load,
                   solar_gen_kw |-> solar, pv_to_bess_kw |-> pv, current_soc_kwh |-> soc,
                   discharge_permitted |-> permitted, step_hours |-> sh,
                   result |-> calculate_discharge_power(load, solar, pv, soc, config,
                                                        permitted, sh)]
    /\ UNCHANGED <<config, hours_per_step, n_hours, previous_soc_kwh, t>>

InitDischarge == InitCall(DischargeConfigs)

SpecDischarge == InitDischarge /\ [][DischargePowerCall]_vars

\* ---- calculate_grid_charge_power, directly and through a dispatch step ----
GridConfigs ==
    {[BaseConfig EXCEPT !.grid_charge_mode = gm, !.grid_charge_capacity_kw = gc,
                        !.charge_efficiency = ce] :
        gm \in GridChargeMode, gc \in {Zero, R(2), R(6), R(12)}, ce \in {Q(4, 5), R(1)}}

GridChargeCall ==
    /\ call = NoCall
    /\ \E soc \in SocGrid(config.usable_capacity_kwh, SocSteps), sh \in StepHoursInputs,
          mp \in {None} \cup {Some(x) : x \in Levels(R(1))} :
          call' = [op |-> "calculate_grid_charge_power", current_soc_kwh |-> soc,
                   step_hours |-> sh, max_power_kw |-> mp,
                   result |-> calculate_grid_charge_power(soc, config, sh, mp)]
    /\ UNCHANGED <<config, hours_per_step, n_hours, previous_soc_kwh, t>>

InitGrid == InitRun(GridConfigs, {R(1)}, 1, SocSteps)

NextGrid == GridChargeCall \/ DispatchStep

SpecGrid == InitGrid /\ [][NextGrid]_vars

\* ---- evaluate_discharge_permission ----
PermissionConfigs ==
    {[BaseConfig EXCEPT !.strategy_mode = sm, !.when_needed = wn, !.after_sunset = as,
                        !.optimize_mode = om, !.peak_mode = pm] :
        sm \in StrategyMode, wn \in BOOLEAN, as \in BOOLEAN, om \in BOOLEAN,
        pm \in BOOLEAN}

PermissionCall ==
    /\ call = NoCall
    /\ \E hour \in 0 .. 23, load \in {R(3)}, solar \in Levels(R(2)),
          gl \in Levels(R(3)) \cup {Q(7, 2)},
          is_peak_period \in BOOLEAN, is_sunday \in BOOLEAN :
          \E r \in {evaluate_discharge_permission(hour, load, solar, gl, config,
                                                  is_peak_period, is_sunday)} :
              call' = [op |-> "evaluate_discharge_permission", hour |-> hour,
                       load_kw |-> load, solar_gen_kw |-> solar,
                       grid_load_after_solar_kw |-> gl,
                       is_peak_period |-> is_peak_period, is_sunday |-> is_sunday,
                       result |-> r.conditions, warning |-> r.warning,
                       any_active |-> any_active(r.conditions),
                       active_list |-> active_list(r.conditions),
                       count_active |-> count_active(r.conditions)]
    /\ UNCHANGED <<config, hours_per_step, n_hours, previous_soc_kwh, t>>

InitPermission == InitCall(PermissionConfigs)

SpecPermission == InitPermission /\ [][PermissionCall]_vars

(***************************************************************************)
(* Properties                                                              *)
(***************************************************************************)
\* The last call was a dispatch that returned a BatteryState.
DispatchReturned == call.op = "dispatch_single_timestep" /\ call.result.status = "ok"

Within(x, lo, hi) == RLe(lo, x) /\ RLe(x, hi)

\* previous + charge_efficiency*(pv + grid)*step - discharged*step/discharge_efficiency
SocRecurrence(prev, pv, grid, dis, cfg, step) ==
    RSub(RAdd(prev, RMul(cfg.charge_efficiency, RMul(RAdd(pv, grid), step))),
         RDiv(RMul(dis, step), cfg.discharge_efficiency))

\* x brought into [0, capacity]
Bounded(x, capacity) ==
    IF RLt(x, Zero) THEN Zero ELSE IF RGt(x, capacity) THEN capacity ELSE x

\* C1: along a dispatch trace that threads the returned SoC into the next call,
\* every returned BatteryState has 0 <= soc_kwh <= usable_capacity_kwh (and so
\* has the SoC handed to the next call).
C1_SocWithinBounds ==
    /\ Within(previous_soc_kwh, Zero, config.usable_capacity_kwh)
    /\ DispatchReturned =>
           Within(call.result.value.soc_kwh, Zero, config.usable_capacity_kwh)

\* C1 witness: the second timestep of a trace fills the battery to capacity.
C1_Witness ==
    /\ DispatchReturned
    /\ t = 2
    /\ RLt(call.previous_soc_kwh, config.usable_capacity_kwh)
    /\ call.result.value.soc_kwh = config.usable_capacity_kwh

\* C2: the committed SoC is the recurrence applied to the ORIGINAL previous SoC
\* and the three returned flows, brought into [0, capacity]; it differs from the
\* unclipped recurrence by at most the 0.01 kWh tolerance.
C2_SocRecurrence ==
    DispatchReturned =>
        LET s == call.result.value
            expected == SocRecurrence(call.previous_soc_kwh, s.pv_charged_kw,
                                      s.grid_charged_kw, s.discharged_kw, config,
                                      call.step_hours)
        IN  /\ RLe(RAbs(RSub(s.soc_kwh, expected)), SocTolerance)
            /\ s.soc_kwh = Bounded(expected, config.usable_capacity_kwh)

\* C2 witness: a step that both charges and discharges with lossy efficiencies,
\* so that the committed SoC is below the post-charge estimate.
C2_Witness ==
    /\ DispatchReturned
    /\ RGt(call.result.value.pv_charged_kw, Zero)
    /\ RGt(call.result.value.grid_charged_kw, Zero)
    /\ RGt(call.result.value.discharged_kw, Zero)
    /\ RLt(config.discharge_efficiency, R(1))
    /\ call.step_hours = Q(1, 2)

\* C3: for every returned BatteryState 0 <= pv_charged_kw <= solar, the direct
\* consumption and the surplus are computed without failure, surplus >= 0,
\* solar = direct + pv_charged + surplus, and validate_energy_balance accepts.
C3_GenerationBalance ==
    DispatchReturned =>
        LET pv == call.result.value.pv_charged_kw
            solar == call.solar_gen_kw
            direct == calculate_direct_pv_consumption(solar, call.load_kw, pv)
            surplus ==
                IF direct.status = "ok"
                THEN calculate_surplus_generation(solar, direct.value, pv)
                ELSE direct
        IN  /\ Within(pv, Zero, solar)
            /\ direct.status = "ok"
            /\ surplus.status = "ok"
            /\ RGe(surplus.value, Zero)
            /\ solar = RAdd(RAdd(direct.value, pv), surplus.value)
            /\ validate_energy_balance(solar, direct.value, pv, surplus.value,
                                       BalanceTolerance, call.timestep).status = "ok"

\* C3 witness: solar is split three ways: load, battery and surplus all get some.
C3_Witness ==
    /\ DispatchReturned
    /\ RGt(call.result.value.pv_charged_kw, Zero)
    /\ LET pv == call.result.value.pv_charged_kw
           direct == calculate_direct_pv_consumption(call.solar_gen_kw, call.load_kw, pv)
       IN  /\ RGt(direct.value, Zero)
           /\ RGt(calculate_surplus_generation(call.solar_gen_kw, direct.value,
                                               pv).value, Zero)

\* C4: update_soc raises SoCBoundsError, carrying the unclipped value, the capacity
\* and the timestep, exactly when the unclipped value is below -0.01 or above
\* capacity + 0.01; otherwise it returns the value brought into [0, capacity].
C4_FailsLoudly ==
    call.op = "update_soc" =>
        LET new == SocRecurrence(call.previous_soc_kwh, call.pv_charged_kw,
                                 call.grid_charged_kw, call.discharged_kw, config,
                                 call.step_hours)
            significant ==
                \/ RLt(new, Q(-1, 100))
                \/ RGt(new, RAdd(config.usable_capacity_kwh, Q(1, 100)))
        IN  IF significant
            THEN /\ call.result.status = "SoCBoundsError"
                 /\ call.result.soc_kwh = new
                 /\ call.result.max_capacity_kwh = config.usable_capacity_kwh
                 /\ call.result.timestep = call.timestep
            ELSE /\ call.result.status = "ok"
                 /\ call.result.value = Bounded(new, config.usable_capacity_kwh)

\* C4 witness: an over-discharge of 0.02 kWh below empty raises, with its timestep.
C4_Witness ==
    /\ call.op = "update_soc"
    /\ call.result.status = "SoCBoundsError"
    /\ call.result.soc_kwh = Q(-1, 50)
    /\ call.result.timestep = Some(7)

\* C5: from a previous SoC in [0, capacity] and non-negative flows, update_soc
\* either raises SoCBoundsError or returns a value in [0, capacity].
C5_UpdateSocBounded ==
    ( /\ call.op = "update_soc"
      /\ Within(call.previous_soc_kwh, Zero, config.usable_capacity_kwh)
      /\ RGe(call.pv_charged_kw, Zero)
      /\ RGe(call.grid_charged_kw, Zero)
      /\ RGe(call.discharged_kw, Zero) )
    => \/ call.result.status = "SoCBoundsError"
       \/ /\ call.result.status = "ok"
          /\ Within(call.result.value, Zero, config.usable_capacity_kwh)

\* C5 witness: an excursion above capacity within the tolerance is returned
\* as the capacity.
C5_Witness ==
    /\ call.op = "update_soc"
    /\ Within(call.previous_soc_kwh, Zero, config.usable_capacity_kwh)
    /\ call.result.status = "ok"
    /\ call.result.value = config.usable_capacity_kwh
    /\ RGt(SocRecurrence(call.previous_soc_kwh, call.pv_charged_kw,
                         call.grid_charged_kw, call.discharged_kw, config,
                         call.step_hours), config.usable_capacity_kwh)

\* C6: calculate_discharge_power returns 0 when discharge is not permitted, when
\* SoC <= 0 or when the unmet load is 0, and otherwise
\* min(unmet_load, soc*discharge_efficiency/step_hours, power_rating_kw); so it
\* exceeds neither the unmet load nor the rating, and the energy it extracts,
\* discharged*step_hours/discharge_efficiency, is at most the SoC given.
C6_DischargeBounded ==
    call.op = "calculate_discharge_power" =>
        LET unmet == RMax(RSub(call.load_kw,
                               RMax(RSub(call.solar_gen_kw, call.pv_to_bess_kw), Zero)),
                          Zero)
            by_energy == RDiv(RMul(call.current_soc_kwh, config.discharge_efficiency),
                              call.step_hours)
            expected ==
                IF ~ call.discharge_permitted \/ RLe(call.current_soc_kwh, Zero)
                   \/ unmet = Zero
                THEN Zero
                ELSE RMin3(unmet, by_energy, config.power_rating_kw)
        IN  /\ call.result = expected
            /\ RLe(call.result, unmet)
            /\ RLe(call.result, config.power_rating_kw)
            /\ RLe(RDiv(RMul(call.result, call.step_hours), config.discharge_efficiency),
                   call.current_soc_kwh)

\* C6 witness: a permitted discharge limited by the energy in the battery, below
\* both the unmet load and the rating.
C6_Witness ==
    /\ call.op = "calculate_discharge_power"
    /\ RGt(call.result, Zero)
    /\ RLt(call.result, config.power_rating_kw)
    /\ RLt(call.result, call.load_kw)
    /\ RLt(config.discharge_efficiency, R(1))
    /\ RDiv(RMul(call.result, call.step_hours), config.discharge_efficiency)
           = call.current_soc_kwh

\* C7: in every returned BatteryState pv_charged_kw <= power_rating_kw,
\* grid_charged_kw <= power_rating_kw - pv_charged_kw, grid_charged_kw <=
\* grid_charge_capacity_kw and discharged_kw <= power_rating_kw; pv_charged_kw is
\* the PV charging decided in step 1, whatever the grid charging.
C7_ChargingRespectsRating ==
    DispatchReturned =>
        LET s == call.result.value
            decided == calculate_pv_to_bess(call.solar_gen_kw, call.load_kw,
                                            call.previous_soc_kwh, call.hour, config,
                                            call.is_peak_period, call.step_hours)
        IN  /\ RLe(s.pv_charged_kw, config.power_rating_kw)
            /\ RLe(s.grid_charged_kw, RSub(config.power_rating_kw, s.pv_charged_kw))
            /\ RLe(RAdd(s.pv_charged_kw, s.grid_charged_kw), config.power_rating_kw)
            /\ RLe(s.grid_charged_kw, config.grid_charge_capacity_kw)
            /\ RLe(s.discharged_kw, config.power_rating_kw)
            /\ decided.status = "ok"
            /\ s.pv_charged_kw = decided.value

\* C7 witness: PV charging takes part of the rating and grid charging exactly
\* the rest.
C7_Witness ==
    /\ DispatchReturned
    /\ RGt(call.result.value.pv_charged_kw, Zero)
    /\ RGt(call.result.value.grid_charged_kw, Zero)
    /\ RAdd(call.result.value.pv_charged_kw, call.result.value.grid_charged_kw)
           = config.power_rating_kw

\* C8: calculate_grid_charge_power returns 0 in DISABLED mode (and a dispatch step
\* of a DISABLED config has grid_charged_kw = 0); in TO_TARGET the target is
\* grid_charge_capacity_kw, in TO_FULL usable_capacity_kwh; it returns 0 once
\* soc >= target and otherwise min((target - soc)/(charge_efficiency*step_hours),
\* grid_charge_capacity_kw, power limit), the power limit being the rating,
\* lowered to max_power_kw when that is given.
C8_GridChargeFollowsMode ==
    /\ call.op = "calculate_grid_charge_power" =>
           LET target ==
                   IF config.grid_charge_mode = "TO_TARGET"
                   THEN config.grid_charge_capacity_kw
                   ELSE config.usable_capacity_kwh
               rate == RDiv(RMax(RSub(target, call.current_soc_kwh), Zero),
                            RMul(config.charge_efficiency, call.step_hours))
               limit ==
                   IF call.max_power_kw = None
                   THEN config.power_rating_kw
                   ELSE RMin(config.power_rating_kw, call.max_power_kw[1])
           IN  call.result =
                   IF config.grid_charge_mode = "DISABLED" THEN Zero
                   ELSE IF RGe(call.current_soc_kwh, target) THEN Zero
                   ELSE RMin3(rate, config.grid_charge_capacity_kw, limit)
    /\ (DispatchReturned /\ config.grid_charge_mode = "DISABLED") =>
           call.result.value.grid_charged_kw = Zero

\* C8 witness: TO_TARGET charges at exactly the rate that reaches the target
\* grid_charge_capacity_kw, which is below the capacity.
C8_Witness ==
    /\ call.op = "calculate_grid_charge_power"
    /\ config.grid_charge_mode = "TO_TARGET"
    /\ RLt(config.grid_charge_capacity_kw, config.usable_capacity_kwh)
    /\ RGt(call.result, Zero)
    /\ RAdd(call.current_soc_kwh,
            RMul(RMul(call.result, call.step_hours), config.charge_efficiency))
           = config.grid_charge_capacity_kw

\* C9: in ARBITRAGE strategy each condition is its toggle AND its own test
\* (load > solar; hour >= 17; hour in the optimize window or peak period; peak
\* period or Sunday within the Sunday peak window), discharge is permitted
\* exactly when at least one holds, and a condition whose toggle is off is
\* not active.
C9_ArbitrageConditions ==
    (call.op = "evaluate_discharge_permission" /\ config.strategy_mode = "ARBITRAGE") =>
        LET c == call.result
            h == call.hour
        IN  /\ c.when_needed = (config.when_needed /\ RGt(call.load_kw, call.solar_gen_kw))
            /\ c.after_sunset = (config.after_sunset /\ h >= 17)
            /\ c.optimize =
                   (config.optimize_mode
                    /\ ((config.optimize_start_hour <= h /\ h <= config.optimize_end_hour)
                        \/ call.is_peak_period))
            /\ c.peak =
                   (config.peak_mode
                    /\ (call.is_peak_period
                        \/ (call.is_sunday /\ config.sunday_peak_start_hour <= h
                            /\ h <= config.sunday_peak_end_hour)))
            /\ call.any_active = (c.when_needed \/ c.after_sunset \/ c.optimize \/ c.peak)
            /\ call.any_active = (call.count_active >= 1)
            /\ (~ config.when_needed) => (~ c.when_needed)
            /\ (~ config.after_sunset) => (~ c.after_sunset)
            /\ (~ config.optimize_mode) => (~ c.optimize)
            /\ (~ config.peak_mode) => (~ c.peak)

\* C9 witness: at hour 17, off peak, the after-sunset condition alone permits
\* discharge.
C9_Witness ==
    /\ call.op = "evaluate_discharge_permission"
    /\ config.strategy_mode = "ARBITRAGE"
    /\ call.hour = 17
    /\ call.any_active
    /\ call.active_list = <<"after_sunset">>

\* C10: in PEAK_SHAVING strategy discharge is permitted exactly when
\* grid_load_after_solar > demand_target_kw; after_sunset, optimize and peak are
\* never active; and the result is the same for every hour, is_peak, is_sunday
\* and setting of the four arbitrage toggles.
C10_PeakShavingSingleCondition ==
    (call.op = "evaluate_discharge_permission" /\ config.strategy_mode = "PEAK_SHAVING") =>
        /\ call.any_active = RGt(call.grid_load_after_solar_kw, config.demand_target_kw)
        /\ ~ call.result.after_sunset
        /\ ~ call.result.optimize
        /\ ~ call.result.peak
        /\ \A h \in 0 .. 23, pk \in BOOLEAN, su \in BOOLEAN :
               evaluate_discharge_permission(h, call.load_kw, call.solar_gen_kw,
                                             call.grid_load_after_solar_kw, config,
                                             pk, su).conditions = call.result
        /\ \A other \in PermissionConfigs :
               other.strategy_mode = "PEAK_SHAVING" =>
                   evaluate_discharge_permission(call.hour, call.load_kw,
                                                 call.solar_gen_kw,
                                                 call.grid_load_after_solar_kw, other,
                                                 call.is_peak_period,
                                                 call.is_sunday).conditions = call.result

\* C10 witness: grid load exactly at the demand target, in a peak period after
\* sunset with every toggle on: discharge is not permitted.
C10_Witness ==
    /\ call.op = "evaluate_discharge_permission"
    /\ config.strategy_mode = "PEAK_SHAVING"
    /\ call.grid_load_after_solar_kw = config.demand_target_kw
    /\ call.hour = 18 /\ call.is_peak_period /\ call.is_sunday
    /\ config.when_needed /\ config.after_sunset /\ config.optimize_mode /\ config.peak_mode
    /\ ~ call.any_active

(***************************************************************************)
(* Overlapping discharge conditions: the permission evaluation called      *)
(* directly and through a dispatch step, over every setting of the toggles.*)
(***************************************************************************)
InitOverlap == InitRun(PermissionConfigs, {R(1)}, 1, 2)

NextOverlap == PermissionCall \/ DispatchStep

SpecOverlap == InitOverlap /\ [][NextOverlap]_vars

\* The names of the arbitrage conditions that hold for the given inputs, each
\* being its toggle AND its own test.
ActiveNames(cfg, hour, load, solar, pk, su) ==
    {n \in {"when_needed", "after_sunset", "optimize", "peak"} :
        \/ n = "when_needed" /\ cfg.when_needed /\ RGt(load, solar)
        \/ n = "after_sunset" /\ cfg.after_sunset /\ hour >= 17
        \/ n = "optimize" /\ cfg.optimize_mode
               /\ ((cfg.optimize_start_hour <= hour /\ hour <= cfg.optimize_end_hour) \/ pk)
        \/ n = "peak" /\ cfg.peak_mode
               /\ (pk \/ (su /\ cfg.sunday_peak_start_hour <= hour
                          /\ hour <= cfg.sunday_peak_end_hour))}

\* cfg with every arbitrage toggle off except the one named n.
OnlyToggle(cfg, n) ==
    [cfg EXCEPT !.when_needed = (n = "when_needed"), !.after_sunset = (n = "after_sunset"),
                !.optimize_mode = (n = "optimize"), !.peak_mode = (n = "peak")]

\* C11: evaluate_discharge_permission emits the overlap warning exactly when
\* count_active() > 1; when two or more arbitrage conditions hold it returns them
\* all (count_active() >= 2, discharge permitted) instead of failing; and a
\* dispatch step whose permission evaluation warned has the same outcome (same
\* failure, or same SoC, flows and permission) as the step of the configuration
\* reduced to any one of the active conditions, which does not warn.
C11_OverlapIsDiagnostic ==
    /\ call.op = "evaluate_discharge_permission" =>
           /\ call.warning = (call.count_active > 1)
           /\ config.strategy_mode = "ARBITRAGE" =>
                  LET names == ActiveNames(config, call.hour, call.load_kw,
                                           call.solar_gen_kw, call.is_peak_period,
                                           call.is_sunday)
                  IN  /\ call.count_active = Cardinality(names)
                      /\ {call.active_list[i] : i \in 1 .. Len(call.active_list)} = names
                      /\ Cardinality(names) >= 2 => (call.warning /\ call.any_active)
    /\ (call.op = "dispatch_single_timestep" /\ config.strategy_mode = "ARBITRAGE") =>
           LET names == ActiveNames(config, call.hour, call.load_kw, call.solar_gen_kw,
                                    call.is_peak_period, call.is_sunday)
           IN  /\ call.result.status = "ok" =>
                      /\ call.result.warning = (Cardinality(names) > 1)
                      /\ call.result.value.discharge_permitted = (names # {})
               /\ \A n \in names :
                      LET single ==
                              dispatch_single_timestep(
                                  call.solar_gen_kw, call.load_kw, call.previous_soc_kwh,
                                  call.hour, OnlyToggle(config, n), call.is_peak_period,
                                  call.is_sunday, call.step_hours, call.timestep)
                      IN  /\ single.status = call.result.status
                          /\ call.result.status = "ok" =>
                                 /\ ~ single.warning
                                 /\ single.value =
                                        [call.result.value EXCEPT
                                             !.active_discharge_conditions = <<n>>]

\* C11 witness: a dispatch step in which three conditions hold at once warns and
\* discharges.
C11_Witness ==
    /\ DispatchReturned
    /\ call.result.warning
    /\ Len(call.result.value.active_discharge_conditions) = 3
    /\ RGt(call.result.value.discharged_kw, Zero)

(***************************************************************************)
(* PV-to-battery charging, called directly.                                *)
(***************************************************************************)
\* <<charge_start_hour, charge_end_hour>>: a daytime window and one that wraps
\* midnight.
ChargeWindows == {<<9, 15>>, <<22, 5>>}
\* Hours on both sides of each window edge and of the precharge target hour.
PvHourInputs == {0, 5, 6, 8, 9, 12, 15, 16, 17, 21, 22, 23}

PvToBessConfigs ==
    {[BaseConfig EXCEPT !.charging_mode = cm, !.power_rating_kw = pr,
                        !.charge_efficiency = ce,
                        !.charge_start_hour = w[1], !.charge_end_hour = w[2],
                        !.min_direct_pv_share = sh[1], !.active_pv2bess_share = sh[2]] :
        cm \in ChargingMode, pr \in {R(4), R(20)}, ce \in {Q(4, 5), R(1)},
        w \in ChargeWindows, sh \in SharePairs}

PvToBessCall ==
    /\ call = NoCall
    /\ \E solar \in SolarInputs, load \in LoadInputs,
          soc \in SocGrid(config.usable_capacity_kwh, SocSteps), hour \in PvHourInputs,
          is_peak_period \in BOOLEAN, sh \in StepHoursInputs :
          call' = [op |-> "calculate_pv_to_bess", solar_gen_kw |-> solar, load_kw |-> load,
                   current_soc_kwh |-> soc, hour |-> hour,
                   is_peak_period |-> is_peak_period, step_hours |-> sh,
                   result |-> calculate_pv_to_bess(solar, load, soc, hour, config,
                                                   is_peak_period, sh)]
    /\ UNCHANGED <<config, hours_per_step, n_hours, previous_soc_kwh, t>>

InitPvToBess == InitCall(PvToBessConfigs)

SpecPvToBess == InitPvToBess /\ [][PvToBessCall]_vars

\* The last call was calculate_pv_to_bess, and it returned.
PvToBessReturned == call.op = "calculate_pv_to_bess" /\ call.result.status = "ok"

\* max(solar - load*min_direct_pv_share, 0)
AvailableForCharging(cfg, solar, load) ==
    RMax(RSub(solar, RMul(load, cfg.min_direct_pv_share)), Zero)

\* min(charge_limit, power_rating_kw), the charge limit being
\* max(capacity - soc, 0)/charge_efficiency/step_hours
MaxChargePower(cfg, soc, step) ==
    RMin(RDiv(RDiv(RMax(RSub(cfg.usable_capacity_kwh, soc), Zero), cfg.charge_efficiency),
              step),
         cfg.power_rating_kw)

\* C12: in TIME_WINDOW mode calculate_pv_to_bess returns a positive value only
\* if the hour is inside the inclusive charge window (wrapping midnight when
\* start > end) and the timestep is not a peak period; when it charges, the power
\* is min(available*active_pv2bess_share, min(charge_limit, power_rating_kw)).
C12_TimeWindowGated ==
    (call.op = "calculate_pv_to_bess" /\ config.charging_mode = "TIME_WINDOW") =>
        LET h == call.hour
            inside ==
                IF config.charge_start_hour > config.charge_end_hour
                THEN h >= config.charge_start_hour \/ h <= config.charge_end_hour
                ELSE config.charge_start_hour <= h /\ h <= config.charge_end_hour
            available == AvailableForCharging(config, call.solar_gen_kw, call.load_kw)
            expected ==
                RMin(RMul(available, config.active_pv2bess_share),
                     MaxChargePower(config, call.current_soc_kwh, call.step_hours))
        IN  /\ call.result.status = "ok"
            /\ RGe(call.result.value, Zero)
            /\ RGt(call.result.value, Zero) => (inside /\ ~ call.is_peak_period)
            /\ RGt(call.result.value, Zero) => call.result.value = expected
            /\ (inside /\ ~ call.is_peak_period) => call.result.value = expected

\* C12 witness: a window 22..5 charges at hour 5, after midnight, at the shared
\* part of the available PV.
C12_Witness ==
    /\ PvToBessReturned
    /\ config.charging_mode = "TIME_WINDOW"
    /\ config.charge_start_hour = 22 /\ config.charge_end_hour = 5
    /\ call.hour = 5
    /\ config.active_pv2bess_share = Q(1, 2)
    /\ RGt(call.result.value, Zero)
    /\ call.result.value
           = RMul(AvailableForCharging(config, call.solar_gen_kw, call.load_kw), Q(1, 2))

\* The PRECHARGE_TARGET rule: 0 when hour >= precharge_target_hour or SoC >= the
\* target, otherwise min((target - soc)/(charge_efficiency*(target hour - hour)),
\* available, max_charge_power).
PrechargeExpected(cfg, solar, load, soc, hour, step) ==
    IF hour >= cfg.precharge_target_hour \/ RGe(soc, cfg.precharge_target_soc_kwh)
    THEN Zero
    ELSE RMin3(RDiv(RSub(cfg.precharge_target_soc_kwh, soc),
                    RMul(cfg.charge_efficiency, R(cfg.precharge_target_hour - hour))),
               AvailableForCharging(cfg, solar, load),
               MaxChargePower(cfg, soc, step))

\* SoC after storing the energy of charging at `power` for one step.
SocAfterCharging(cfg, soc, power, step) ==
    RAdd(soc, RMul(RMul(power, step), cfg.charge_efficiency))

\* C13 as stated: in PRECHARGE_TARGET mode calculate_pv_to_bess follows the
\* precharge rule, and the energy stored in the step never lifts SoC above the
\* target, whatever the step duration.
C13_PrechargeNeverOvershoots ==
    (call.op = "calculate_pv_to_bess" /\ config.charging_mode = "PRECHARGE_TARGET") =>
        /\ call.result.status = "ok"
        /\ call.result.value
               = PrechargeExpected(config, call.solar_gen_kw, call.load_kw,
                                   call.current_soc_kwh, call.hour, call.step_hours)
        /\ RGt(call.result.value, Zero) =>
               RLe(SocAfterCharging(config, call.current_soc_kwh, call.result.value,
                                    call.step_hours),
                   config.precharge_target_soc_kwh)

\* C13 amended: in PRECHARGE_TARGET mode calculate_pv_to_bess follows the
\* precharge rule, and whenever the step is no longer than the hours remaining
\* to the target hour (step_hours <= precharge_target_hour - hour, so for every
\* step of at most one hour) the energy stored does not lift SoC above the target.
C13_PrechargeRule ==
    (call.op = "calculate_pv_to_bess" /\ config.charging_mode = "PRECHARGE_TARGET") =>
        /\ call.result.status = "ok"
        /\ call.result.value
               = PrechargeExpected(config, call.solar_gen_kw, call.load_kw,
                                   call.current_soc_kwh, call.hour, call.step_hours)
        /\ ( /\ RGt(call.result.value, Zero)
             /\ RLe(call.step_hours, R(config.precharge_target_hour - call.hour)) ) =>
               RLe(SocAfterCharging(config, call.current_soc_kwh, call.result.value,
                                    call.step_hours),
                   config.precharge_target_soc_kwh)

\* C13 witness: one hour before the target hour, a one-hour step at the required
\* rate, with a lossy charge efficiency, lands exactly on the target SoC.
C13_Witness ==
    /\ PvToBessReturned
    /\ config.charging_mode = "PRECHARGE_TARGET"
    /\ call.hour = config.precharge_target_hour - 1
    /\ call.step_hours = R(1)
    /\ RLt(config.charge_efficiency, R(1))
    /\ RGt(call.result.value, Zero)
    /\ RLt(call.result.value, AvailableForCharging(config, call.solar_gen_kw, call.load_kw))
    /\ SocAfterCharging(config, call.current_soc_kwh, call.result.value, call.step_hours)
           = config.precharge_target_soc_kwh

\* C14: in every charging mode the PV power that calculate_pv_to_bess diverts to
\* the battery is at most active_pv2bess_share * max(solar - load*min_direct_pv_share, 0).
C14_ShareIsMaximum ==
    PvToBessReturned =>
        RLe(call.result.value,
            RMul(config.active_pv2bess_share,
                 AvailableForCharging(config, call.solar_gen_kw, call.load_kw)))

(***************************************************************************)
(* calculate_charge_limit, called directly; the arguments include values   *)
(* its validation rejects.                                                 *)
(***************************************************************************)
CapacityInputs == {Zero, R(10), R(100)}
EfficiencyInputs == {Zero, Q(1, 2), Q(4, 5), Q(19, 20), R(1), Q(3, 2)}

ChargeLimitCall ==
    /\ call = NoCall
    /\ \E capacity \in CapacityInputs, efficiency \in EfficiencyInputs,
          sh \in StepHoursInputs \cup {Zero} :
          \E soc \in SocGrid(capacity, SocSteps) \cup {R(-1), RAdd(capacity, R(1))} :
              call' = [op |-> "calculate_charge_limit", current_soc_kwh |-> soc,
                       max_capacity_kwh |-> capacity, charge_efficiency |-> efficiency,
                       step_hours |-> sh,
                       result |-> calculate_charge_limit(soc, capacity, efficiency, sh)]
    /\ UNCHANGED <<config, hours_per_step, n_hours, previous_soc_kwh, t>>

InitChargeLimit == InitCall({BaseConfig})

SpecChargeLimit == InitChargeLimit /\ [][ChargeLimitCall]_vars

\* The arguments of the last calculate_charge_limit call are in the domain of
\* the monotonicity property: capacity > 0, efficiency in (0,1], step_hours > 0,
\* soc in [0, capacity].
ChargeLimitDomain ==
    /\ call.op = "calculate_charge_limit"
    /\ RGt(call.max_capacity_kwh, Zero)
    /\ RLt(Zero, call.charge_efficiency) /\ RLe(call.charge_efficiency, R(1))
    /\ RGt(call.step_hours, Zero)
    /\ Within(call.current_soc_kwh, Zero, call.max_capacity_kwh)

\* C15: for capacity > 0, efficiency in (0,1], step_hours > 0 and soc in
\* [0, capacity], calculate_charge_limit returns
\* max(capacity - soc, 0)/efficiency/step_hours, which is >= 0, is 0 at
\* soc = capacity, is strictly smaller at every larger soc of [0, capacity], and
\* stores exactly the headroom: limit*step_hours*efficiency = capacity - soc.
C15_ChargeLimitMonotone ==
    ChargeLimitDomain =>
        LET limit == call.result.value
        IN  /\ call.result.status = "ok"
            /\ limit = RDiv(RDiv(RMax(RSub(call.max_capacity_kwh, call.current_soc_kwh),
                                      Zero),
                                 call.charge_efficiency),
                            call.step_hours)
            /\ RGe(limit, Zero)
            /\ (call.current_soc_kwh = call.max_capacity_kwh) = (limit = Zero)
            /\ RMul(RMul(limit, call.step_hours), call.charge_efficiency)
                   = RSub(call.max_capacity_kwh, call.current_soc_kwh)
            /\ \A higher \in SocGrid(call.max_capacity_kwh, SocSteps) :
                   RGt(higher, call.current_soc_kwh) =>
                       LET other == calculate_charge_limit(higher, call.max_capacity_kwh,
                                                           call.charge_efficiency,
                                                           call.step_hours)
                       IN  other.status = "ok" /\ RLt(other.value, limit)

\* C15 witness: a half-full 100 kWh battery at efficiency 0.95 and half-hour
\* steps has a limit above its headroom per hour.
C15_Witness ==
    /\ ChargeLimitDomain
    /\ call.max_capacity_kwh = R(100)
    /\ call.current_soc_kwh = R(50)
    /\ call.charge_efficiency = Q(19, 20)
    /\ call.step_hours = Q(1, 2)
    /\ call.result.status = "ok"
    /\ call.result.value = Q(2000, 19)

(***************************************************************************)
(* A round trip through update_soc: charge X kW from PV for one hour, then *)
(* discharge X*e kW for one hour, e being both efficiencies.               *)
(***************************************************************************)
RoundTripConfigs ==
    {[BaseConfig EXCEPT !.charge_efficiency = e, !.discharge_efficiency = e] :
        e \in {Q(1, 2), Q(4, 5), R(1)}}

\* The charged power X: values around the 0.01 kWh tolerance and larger ones.
RoundTripPowers == NearTolerance \cup (Levels(R(2)) \ {Zero})

RoundTripCharge ==
    /\ call = NoCall
    /\ \E x \in RoundTripPowers :
          \E r \in {update_soc(previous_soc_kwh, x, Zero, Zero, config, R(1), None)} :
              /\ call' = [op |-> "update_soc", leg |-> "charge", start |-> previous_soc_kwh,
                          x |-> x, result |-> r]
              /\ previous_soc_kwh' = IF r.status = "ok" THEN r.value ELSE previous_soc_kwh
    /\ UNCHANGED <<config, hours_per_step, n_hours, t>>

RoundTripDischarge ==
    /\ call.op = "update_soc"
    /\ call.leg = "charge"
    /\ call.result.status = "ok"
    /\ \E r \in {update_soc(previous_soc_kwh, Zero, Zero,
                            RMul(call.x, config.discharge_efficiency), config, R(1),
                            None)} :
          /\ call' = [op |-> "update_soc", leg |-> "discharge", start |-> call.start,
                      x |-> call.x, charged |-> call.result.value, result |-> r]
          /\ previous_soc_kwh' = IF r.status = "ok" THEN r.value ELSE previous_soc_kwh
    /\ UNCHANGED <<config, hours_per_step, n_hours, t>>

InitRoundTrip == InitRun(RoundTripConfigs, {R(1)}, 0, SocSteps)

NextRoundTrip == RoundTripCharge \/ RoundTripDischarge

SpecRoundTrip == InitRoundTrip /\ [][NextRoundTrip]_vars

\* Both legs of a round trip have returned.
RoundTripDone == call.op = "update_soc" /\ call.leg = "discharge" /\ call.result.status = "ok"

\* C16 as stated: after a round trip in which neither step fails the SoC is
\* strictly below the start when e < 1, and exactly the start when e = 1.
C16_RoundTripStrictLoss ==
    RoundTripDone =>
        IF RLt(config.charge_efficiency, R(1))
        THEN RLt(call.result.value, call.start)
        ELSE call.result.value = call.start

\* C16 amended: after a round trip in which neither step fails, with e < 1 the
\* SoC is at most the start, and strictly below it whenever the start is above 0
\* (from an empty battery a loss within the 0.01 kWh tolerance is clipped back
\* to 0); with e = 1 the SoC is exactly the start whenever start + X <= capacity,
\* and below the start when the charging step was clipped at capacity.
C16_RoundTripLoss ==
    RoundTripDone =>
        IF RLt(config.charge_efficiency, R(1))
        THEN /\ RLe(call.result.value, call.start)
             /\ RGt(call.start, Zero) => RLt(call.result.value, call.start)
             /\ call.start = Zero => call.result.value = Zero
        ELSE IF RLe(RAdd(call.start, call.x), config.usable_capacity_kwh)
             THEN call.result.value = call.start
             ELSE RLt(call.result.value, call.start)

\* C16 witness: at e = 0.8, charging 2 kW and discharging 1.6 kW from a
\* half-full battery ends 0.4 kWh below the start.
C16_Witness ==
    /\ RoundTripDone
    /\ config.charge_efficiency = Q(4, 5)
    /\ call.start = R(5)
    /\ call.x = R(2)
    /\ call.charged = Q(33, 5)
    /\ call.result.value = Q(23, 5)

(***************************************************************************)
(* Construction of the run's BatteryConfig (a frozen dataclass validated   *)
(* by __post_init__), attempts to assign its fields, and dispatch with it. *)
(* Before construction there is no instance: config = None.                *)
(***************************************************************************)
\* Candidate field values, valid and invalid.
CapacityCandidates == {R(-1), Zero, R(10)}
RatingCandidates == {R(-1), Zero, R(4)}
EfficiencyCandidates == {Q(-1, 2), Zero, Q(4, 5), R(1), Q(3, 2)}

\* BatteryConfig(...): __post_init__ raises ValueError and no instance exists,
\* or the instance holds the given fields.
Construct ==
    /\ config = None
    /\ \E capacity \in CapacityCandidates, rating \in RatingCandidates,
          ce \in EfficiencyCandidates, de \in EfficiencyCandidates :
          \E fields \in {[BaseConfig EXCEPT !.usable_capacity_kwh = capacity,
                                            !.power_rating_kw = rating,
                                            !.charge_efficiency = ce,
                                            !.discharge_efficiency = de]} :
              IF BatteryConfigValid(fields)
              THEN /\ config' = fields
                   /\ call' = [op |-> "BatteryConfig", fields |-> fields,
                               result |-> [status |-> "ok"]]
              ELSE /\ config' = None
                   /\ call' = [op |-> "BatteryConfig", fields |-> fields,
                               result |-> Raise("ValueError")]
    /\ UNCHANGED <<hours_per_step, n_hours, previous_soc_kwh, t>>

\* config.<field> = value on the frozen instance: FrozenInstanceError, nothing
\* is assigned.
AssignField ==
    /\ config # None
    /\ \E field \in {"usable_capacity_kwh", "power_rating_kw", "charge_efficiency",
                     "discharge_efficiency"},
          value \in {Zero, R(1), R(20)} :
          call' = [op |-> "setattr", field |-> field, value |-> value,
                   result |-> Raise("FrozenInstanceError")]
    /\ UNCHANGED <<config, hours_per_step, n_hours, previous_soc_kwh, t>>

\* A dispatch step with the constructed instance.
DispatchConstructed ==
    /\ config # None
    /\ t < n_hours
    /\ \E solar_gen_kw \in TraceSolarInputs, load_kw \in TraceLoadInputs,
          hour \in TraceHourInputs, is_peak_period \in BOOLEAN :
          \E r \in {dispatch_single_timestep(solar_gen_kw, load_kw, previous_soc_kwh, hour,
                                             config, is_peak_period, FALSE,
                                             hours_per_step, Some(t))} :
              /\ call' = [op |-> "dispatch_single_timestep",
                          solar_gen_kw |-> solar_gen_kw, load_kw |-> load_kw,
                          previous_soc_kwh |-> previous_soc_kwh, hour |-> hour,
                          is_peak_period |-> is_peak_period, is_sunday |-> FALSE,
                          step_hours |-> hours_per_step, timestep |-> Some(t), result |-> r]
              /\ previous_soc_kwh' =
                     IF r.status = "ok" THEN r.value.soc_kwh ELSE previous_soc_kwh
              /\ t' = IF r.status = "ok" THEN t + 1 ELSE t
    /\ UNCHANGED <<config, hours_per_step, n_hours>>

InitConstruct ==
    /\ config = None
    /\ hours_per_step = R(1)
    /\ n_hours = MaxSteps
    /\ previous_soc_kwh = Zero
    /\ t = 0
    /\ call = NoCall

NextConstruct == Construct \/ AssignField \/ DispatchConstructed

SpecConstruct == InitConstruct /\ [][NextConstruct]_vars

\* The construction arguments that the configuration contract rejects:
\* capacity <= 0, rating <= 0, or an efficiency outside (0, 1].
Rejected(fields) ==
    \/ RLe(fields.usable_capacity_kwh, Zero)
    \/ RLe(fields.power_rating_kw, Zero)
    \/ RLe(fields.charge_efficiency, Zero) \/ RGt(fields.charge_efficiency, R(1))
    \/ RLe(fields.discharge_efficiency, Zero) \/ RGt(fields.discharge_efficiency, R(1))

\* C17: constructing a BatteryConfig fails, leaving no instance, exactly when
\* capacity <= 0, rating <= 0 or an efficiency is outside (0,1], and otherwise
\* yields an instance with the given fields; every instance that exists
\* satisfies the four constraints; and once an instance exists no step (an
\* assignment to a field, a dispatch) changes any of its fields.
C17_ConfigValidatedAndFrozen ==
    /\ [](call.op = "BatteryConfig" =>
              IF Rejected(call.fields)
              THEN call.result.status = "ValueError" /\ config = None
              ELSE call.result.status = "ok" /\ config = call.fields)
    /\ [](config # None => ~ Rejected(config))
    /\ [][config # None => config' = config]_vars

\* C17 witness: after two dispatched timesteps an assignment of 1 to the
\* charge efficiency 0.8 of the instance is refused.
C17_Witness ==
    /\ config # None
    /\ t = 2
    /\ call.op = "setattr"
    /\ call.field = "charge_efficiency"
    /\ call.value = R(1)
    /\ call.result.status = "FrozenInstanceError"
    /\ config.charge_efficiency = Q(4, 5)

(***************************************************************************)
(* calculate_surplus_generation, called directly; the arguments include    *)
(* negative values and differences on both sides of the -0.001 tolerance.  *)
(***************************************************************************)
SurplusSolarInputs == {R(-1), Zero, R(4), R(100)}
SurplusDirectInputs == {R(-1), Zero, R(3), R(60)}
SurplusChargedInputs == {R(-1), Zero, R(1), Q(1001, 1000), Q(501, 500), R(40), R(50)}

SurplusCall ==
    /\ call = NoCall
    /\ \E solar \in SurplusSolarInputs, direct \in SurplusDirectInputs,
          charged \in SurplusChargedInputs :
          call' = [op |-> "calculate_surplus_generation", solar_gen_kw |-> solar,
                   direct_consumption_kw |-> direct, pv_charged_kw |-> charged,
                   result |-> calculate_surplus_generation(solar, direct, charged)]
    /\ UNCHANGED <<config, hours_per_step, n_hours, previous_soc_kwh, t>>

InitSurplus == InitCall({BaseConfig})

SpecSurplus == InitSurplus /\ [][SurplusCall]_vars

\* solar - direct - pv_charged of the last calculate_surplus_generation call
SurplusDifference ==
    RSub(RSub(call.solar_gen_kw, call.direct_consumption_kw), call.pv_charged_kw)

\* C18 as stated, for non-negative arguments: calculate_surplus_generation
\* returns max(solar - direct - pv_charged, 0) when the unclamped difference is
\* >= -0.001, and fails with EnergyBalanceError when it is below -0.001.
C18_NegativeSurplusIsBalanceError ==
    ( /\ call.op = "calculate_surplus_generation"
      /\ RGe(call.solar_gen_kw, Zero)
      /\ RGe(call.direct_consumption_kw, Zero)
      /\ RGe(call.pv_charged_kw, Zero) ) =>
        IF RGe(SurplusDifference, Q(-1, 1000))
        THEN call.result = Ok(RMax(SurplusDifference, Zero))
        ELSE call.result.status = "EnergyBalanceError"

\* C18 amended: calculate_surplus_generation fails with ValueError when an
\* argument is negative or the unclamped difference is below -0.001, never
\* returning a value then; otherwise it returns max(solar - direct - pv_charged, 0).
C18_NegativeSurplusIsValueError ==
    call.op = "calculate_surplus_generation" =>
        IF \/ RLt(call.solar_gen_kw, Zero)
           \/ RLt(call.direct_consumption_kw, Zero)
           \/ RLt(call.pv_charged_kw, Zero)
           \/ RLt(SurplusDifference, Q(-1, 1000))
        THEN call.result = Raise("ValueError")
        ELSE call.result = Ok(RMax(SurplusDifference, Zero))

\* C18 witness: 100 kW of solar against 60 kW direct and 50 kW charged, a
\* difference of -10, fails.
C18_Witness ==
    /\ call.op = "calculate_surplus_generation"
    /\ call.solar_gen_kw = R(100)
    /\ call.direct_consumption_kw = R(60)
    /\ call.pv_charged_kw = R(50)
    /\ call.result.status = "ValueError"

(***************************************************************************)
(* validate_energy_balance_vectorized, called directly on arrays of up to  *)
(* MaxArrayLen timesteps.                                                  *)
(***************************************************************************)
\* Timesteps <<solar, direct, charged, surplus>>: balanced, 10 kWh missing,
\* 10 kWh too many, 0.001 kWh too many (at the tolerance), 0.002 kWh too many.
BalanceRows ==
    {<<R(100), R(60), R(30), R(10)>>, <<R(100), R(60), R(30), Zero>>,
     <<R(100), R(60), R(30), R(20)>>, <<R(100), R(60), R(30), Q(10001, 1000)>>,
     <<R(100), R(60), R(30), Q(5001, 500)>>}

ToleranceInputs == {BalanceTolerance, R(10)}

\* The arrays of length n whose elements are drawn from rows.
ArraysOf(rows, n) == [1 .. n -> rows]

BalanceVectorizedCall ==
    /\ call = NoCall
    /\ \E n \in 0 .. MaxArrayLen, tolerance \in ToleranceInputs :
          \E rows \in ArraysOf(BalanceRows, n) :
              \E solar \in {[i \in 1 .. n |-> rows[i][1]]},
                 direct \in {[i \in 1 .. n |-> rows[i][2]]},
                 charged \in {[i \in 1 .. n |-> rows[i][3]]},
                 surplus \in {[i \in 1 .. n |-> rows[i][4]]} :
                  call' = [op |-> "validate_energy_balance_vectorized",
                           solar_gen_kwh |-> solar, direct_consumption_kwh |-> direct,
                           charged_kwh |-> charged, surplus_kwh |-> surplus,
                           tolerance |-> tolerance,
                           result |-> validate_energy_balance_vectorized(
                                          solar, direct, charged, surplus, tolerance)]
    /\ UNCHANGED <<config, hours_per_step, n_hours, previous_soc_kwh, t>>

InitBalanceVectorized == InitCall({BaseConfig})

SpecBalanceVectorized == InitBalanceVectorized /\ [][BalanceVectorizedCall]_vars

\* The 0-based indices at which the scalar validate_energy_balance fails on the
\* arrays of the last validate_energy_balance_vectorized call.
ScalarBalanceFailures ==
    {i \in 0 .. (Len(call.solar_gen_kwh) - 1) :
        validate_energy_balance(call.solar_gen_kwh[i + 1],
                                call.direct_consumption_kwh[i + 1],
                                call.charged_kwh[i + 1], call.surplus_kwh[i + 1],
                                call.tolerance, Some(i)).status = "EnergyBalanceError"}

\* C19: validate_energy_balance_vectorized fails exactly when the scalar
\* validate_energy_balance fails for at least one index; the error then reports
\* as count the number of indices with |solar - (direct+charged+surplus)| >
\* tolerance over the whole array, and as timestep the lowest such index.
C19_VectorizedAgreesWithScalar ==
    call.op = "validate_energy_balance_vectorized" =>
        LET over ==
                {i \in 0 .. (Len(call.solar_gen_kwh) - 1) :
                    RGt(RAbs(RSub(call.solar_gen_kwh[i + 1],
                                  RAdd(RAdd(call.direct_consumption_kwh[i + 1],
                                            call.charged_kwh[i + 1]),
                                       call.surplus_kwh[i + 1]))),
                        call.tolerance)}
        IN  /\ over = ScalarBalanceFailures
            /\ (call.result.status = "EnergyBalanceError") = (ScalarBalanceFailures # {})
            /\ (call.result.status = "ok") = (ScalarBalanceFailures = {})
            /\ call.result.status = "EnergyBalanceError" =>
                   /\ call.result.violation_count = Cardinality(over)
                   /\ call.result.timestep # None
                   /\ call.result.timestep[1] \in over
                   /\ \A i \in over : call.result.timestep[1] <= i

\* C19 witness: the first timestep balances and the two after it do not; the
\* error counts 2 violations and names index 1.
C19_Witness ==
    /\ call.op = "validate_energy_balance_vectorized"
    /\ Len(call.solar_gen_kwh) = 3
    /\ call.result.status = "EnergyBalanceError"
    /\ call.result.violation_count = 2
    /\ call.result.timestep = Some(1)

(***************************************************************************)
(* validate_soc_bounds_vectorized, called directly on SoC arrays of up to  *)
(* MaxArrayLen timesteps of a 100 kWh battery.                             *)
(***************************************************************************)
\* SoC values: below empty, at and just beyond the 0.001 kWh tolerance on both
\* sides, inside the bounds, above capacity.
SocElements == {R(-5), Q(-1, 500), Q(-1, 1000), R(50), Q(100001, 1000), R(110)}

SocVectorizedCall ==
    /\ call = NoCall
    /\ \E n \in 0 .. MaxArrayLen :
          \E soc \in ArraysOf(SocElements, n) :
              call' = [op |-> "validate_soc_bounds_vectorized", soc_kwh |-> soc,
                       max_capacity_kwh |-> R(100), tolerance |-> BalanceTolerance,
                       result |-> validate_soc_bounds_vectorized(soc, R(100),
                                                                 BalanceTolerance)]
    /\ UNCHANGED <<config, hours_per_step, n_hours, previous_soc_kwh, t>>

InitSocVectorized == InitCall({BaseConfig})

SpecSocVectorized == InitSocVectorized /\ [][SocVectorizedCall]_vars

\* The 0-based indices at which the scalar validate_soc_bounds fails on the
\* array of the last validate_soc_bounds_vectorized call.
ScalarSocFailures ==
    {i \in 0 .. (Len(call.soc_kwh) - 1) :
        validate_soc_bounds(call.soc_kwh[i + 1], call.max_capacity_kwh, Some(i),
                            call.tolerance).status = "SoCBoundsError"}

\* C20: validate_soc_bounds_vectorized fails exactly when validate_soc_bounds
\* fails for at least one element; the SoCBoundsError then reports as count the
\* total number of out-of-bounds elements (below -tolerance or above capacity +
\* tolerance) and as timestep the lowest index of any out-of-bounds element.
C20_ReportsAllSocViolations ==
    call.op = "validate_soc_bounds_vectorized" =>
        /\ (call.result.status = "SoCBoundsError") = (ScalarSocFailures # {})
        /\ call.result.status = "SoCBoundsError" =>
               /\ call.result.violation_count = Cardinality(ScalarSocFailures)
               /\ call.result.timestep # None
               /\ call.result.timestep[1] \in ScalarSocFailures
               /\ \A i \in ScalarSocFailures : call.result.timestep[1] <= i

(***************************************************************************)
(* validate_power_rating, called directly; ratings include non-positive    *)
(* ones and powers lie on both sides of rating*(1 + tolerance).            *)
(***************************************************************************)
PowerInputs ==
    {R(-5), Zero, R(4), Q(101, 25), Q(81, 20), R(5), R(100), R(101), R(102), R(105),
     R(106), R(120)}

PowerRatingCall ==
    /\ call = NoCall
    /\ \E power \in PowerInputs, rating \in {R(-1), Zero, R(4), R(100)},
          tolerance \in {Zero, Q(1, 100), Q(1, 20)}, ts \in {None, Some(3)} :
          call' = [op |-> "validate_power_rating", power_kw |-> power,
                   max_rating_kw |-> rating, timestep |-> ts, tolerance |-> tolerance,
                   result |-> validate_power_rating(power, rating, ts, tolerance)]
    /\ UNCHANGED <<config, hours_per_step, n_hours, previous_soc_kwh, t>>

SpecPowerRating == InitCall({BaseConfig}) /\ [][PowerRatingCall]_vars

\* C21: for max_rating_kw > 0 validate_power_rating fails with
\* InsufficientCapacityError carrying requested_kw = power and available_kw =
\* rating exactly when power > rating*(1 + tolerance), and accepts every power at
\* or below that threshold, the rating itself included; for max_rating_kw <= 0
\* it fails with a value error.
C21_RatingCheck ==
    call.op = "validate_power_rating" =>
        /\ IF RLe(call.max_rating_kw, Zero)
           THEN call.result.status = "ValueError"
           ELSE IF RGt(call.power_kw,
                       RAdd(call.max_rating_kw, RMul(call.max_rating_kw, call.tolerance)))
           THEN /\ call.result.status = "InsufficientCapacityError"
                /\ call.result.requested_kw = call.power_kw
                /\ call.result.available_kw = call.max_rating_kw
           ELSE call.result.status = "ok"
        /\ (RGt(call.max_rating_kw, Zero) /\ call.power_kw = call.max_rating_kw)
               => call.result.status = "ok"

\* C21 witness: 105 kW on a 100 kW rating with 5% tolerance, exactly at the
\* threshold, is accepted.
C21_Witness ==
    /\ call.op = "validate_power_rating"
    /\ call.power_kw = R(105)
    /\ call.max_rating_kw = R(100)
    /\ call.tolerance = Q(1, 20)
    /\ call.result.status = "ok"

\* C22: a failed timestep commits nothing: when the SoC update that ends
\* dispatch_single_timestep fails, the call ends with SoCBoundsError and returns
\* no BatteryState, the configuration and the caller's previous SoC are unchanged,
\* and the trace holds only the states committed before the failing timestep.
\* Every step of the hour loop either returns a BatteryState whose final SoC
\* update succeeded, or ends with SoCBoundsError and leaves the loop as it was.
C22_FailedStepCommitsNothing ==
    [][call'.op = "dispatch_single_timestep" =>
        LET r == call'.result
        IN  /\ r.status \in {"ok", "SoCBoundsError"}
            /\ r.status = "ok" =>
                   LET new == SocRecurrence(previous_soc_kwh, r.value.pv_charged_kw,
                                            r.value.grid_charged_kw, r.value.discharged_kw,
                                            config, hours_per_step)
                   IN  /\ Within(new, Q(-1, 100),
                                 RAdd(config.usable_capacity_kwh, Q(1, 100)))
                       /\ t' = t + 1
            /\ r.status = "SoCBoundsError" =>
                   /\ "value" \notin DOMAIN r
                   /\ r.timestep = Some(t)
                   /\ config' = config
                   /\ previous_soc_kwh' = previous_soc_kwh
                   /\ t' = t]_vars

\* C22 witness: the second timestep of a trace fails after the first was
\* committed; the loop still holds the SoC the first timestep returned.
C22_Witness ==
    /\ call.op = "dispatch_single_timestep"
    /\ call.result.status = "SoCBoundsError"
    /\ call.timestep = Some(1)
    /\ t = 1
    /\ previous_soc_kwh = call.previous_soc_kwh
    /\ RGt(previous_soc_kwh, R(5))

(***************************************************************************)
(* Two traces run side by side on one shared BatteryConfig.  Each trace    *)
(* has its own inputs, its own position and its own previous SoC; the      *)
(* scheduler picks which trace makes its next dispatch call.  In this      *)
(* specification previous_soc_kwh and t map a trace to its SoC and its     *)
(* position, and call keeps what each trace was given and has returned.    *)
(***************************************************************************)
Traces == {"A", "B"}

\* The arguments of one hour: a sunny off-peak hour and a dark peak hour.
HourArguments ==
    {[solar_gen_kw |-> R(8), load_kw |-> Zero, hour |-> 10, is_peak_period |-> FALSE,
      is_sunday |-> FALSE],
     [solar_gen_kw |-> Zero, load_kw |-> R(6), hour |-> 18, is_peak_period |-> TRUE,
      is_sunday |-> FALSE]}

InterleaveConfigs ==
    {BaseConfig,
     [BaseConfig EXCEPT !.grid_charge_mode = "TO_TARGET", !.grid_charge_capacity_kw = R(12)],
     [BaseConfig EXCEPT !.strategy_mode = "PEAK_SHAVING",
                        !.charging_mode = "PRECHARGE_TARGET"]}

\* Faulty variant: the returned SoC is kept in one place that every trace reads.
thread_shared_soc(socs, x, r) ==
    IF r.status = "ok" THEN [y \in DOMAIN socs |-> r.value.soc_kwh] ELSE socs

\* The SoC a dispatch returned becomes the previous SoC of the same trace only.
thread_prev_soc(socs, x, r) ==
    IF r.status = "ok" THEN [socs EXCEPT ![x] = r.value.soc_kwh] ELSE socs

InitInterleave ==
    /\ config \in InterleaveConfigs
    /\ BatteryConfigValid(config)
    /\ hours_per_step = R(1)
    /\ n_hours = MaxSteps
    /\ previous_soc_kwh \in [Traces -> SocGrid(config.usable_capacity_kwh, 2)]
    /\ t = [x \in Traces |-> 0]
    /\ \E inputs \in [Traces -> [1 .. MaxSteps -> HourArguments]] :
          call = [op |-> "none", result |-> [status |-> "ok"], inputs |-> inputs,
                  start |-> previous_soc_kwh, states |-> [x \in Traces |-> << >>],
                  order |-> << >>]

\* Trace x makes its next dispatch call; a trace that failed makes no more.
DispatchTrace(x) ==
    /\ t[x] < n_hours
    /\ \A i \in 1 .. Len(call.states[x]) : call.states[x][i].status = "ok"
    /\ LET a == call.inputs[x][t[x] + 1]
       IN  \E r \in {dispatch_single_timestep(a.solar_gen_kw, a.load_kw, previous_soc_kwh[x],
                                              a.hour, config, a.is_peak_period, a.is_sunday,
                                              hours_per_step, Some(t[x]))} :
               /\ call' = [call EXCEPT !.op = "dispatch_trace", !.result = r,
                                       !.states[x] = Append(@, r),
                                       !.order = Append(@, x)]
               /\ previous_soc_kwh' = thread_prev_soc(previous_soc_kwh, x, r)
               /\ t' = [t EXCEPT ![x] = IF r.status = "ok" THEN @ + 1 ELSE @]
    /\ UNCHANGED <<config, hours_per_step, n_hours>>

NextInterleave == DispatchTrace("A") \/ DispatchTrace("B")

SpecInterleave == InitInterleave /\ [][NextInterleave]_vars

\* The outcomes of a trace run on its own from timestep i on: each call is given
\* the SoC the call before it returned, and the run ends at the first failure.
RECURSIVE RunAlone(_, _, _, _, _)
RunAlone(inputs, soc, cfg, step_hours, i) ==
    IF i > Len(inputs) THEN << >>
    ELSE LET a == inputs[i]
             r == dispatch_single_timestep(a.solar_gen_kw, a.load_kw, soc, a.hour, cfg,
                                           a.is_peak_period, a.is_sunday, step_hours,
                                           Some(i - 1))
         IN  IF r.status = "ok"
             THEN <<r>> \o RunAlone(inputs, r.value.soc_kwh, cfg, step_hours, i + 1)
             ELSE <<r>>

C24_DispatchNeverFails ==
    ( /\ call.op = "dispatch_single_timestep"
      /\ BatteryConfigValid(config)
      /\ Within(config.min_direct_pv_share, Zero, R(1))
      /\ Within(config.active_pv2bess_share, Zero, R(1))
      /\ RGe(config.grid_charge_capacity_kw, Zero)
      /\ RGe(config.precharge_target_soc_kwh, Zero)
      /\ Within(call.previous_soc_kwh, Zero, config.usable_capacity_kwh)
      /\ RGe(call.solar_gen_kw, Zero)
      /\ RGe(call.load_kw, Zero)
      /\ call.hour \in 0 .. 23
      /\ RGt(call.step_hours, Zero) )
    => call.result.status = "ok"

\* The quantities of a returned dispatch step that C25 speaks of.
GridLoadAfterSolar ==
    RMax(RSub(call.load_kw, RSub(call.solar_gen_kw, call.result.value.pv_charged_kw)), Zero)
CanDeliverExcess ==
    LET soc_after_charge ==
            RMin(RAdd(call.previous_soc_kwh,
                      RMul(RMul(RAdd(call.result.value.pv_charged_kw,
                                     call.result.value.grid_charged_kw), call.step_hours),
                           config.charge_efficiency)),
                 config.usable_capacity_kwh)
    IN  RGe(RMin(RDiv(RMul(soc_after_charge, config.discharge_efficiency),
                      call.step_hours),
                 config.power_rating_kw),
            RSub(GridLoadAfterSolar, config.demand_target_kw))
\* load - PV serving load - discharged_kw + grid_charged_kw
GridDraw ==
    RAdd(RSub(RSub(call.load_kw,
                   calculate_direct_pv_consumption(call.solar_gen_kw, call.load_kw,
                                                   call.result.value.pv_charged_kw).value),
              call.result.value.discharged_kw),
         call.result.value.grid_charged_kw)

\* C25: in PEAK_SHAVING strategy, for every dispatch step in which the battery
\* can deliver the excess over the demand target, the site's grid draw after the
\* battery acts is at most demand_target_kw.
C25_PeakShavingLimitsGridDraw ==
    (DispatchReturned /\ config.strategy_mode = "PEAK_SHAVING" /\ CanDeliverExcess)
    => RLe(GridDraw, config.demand_target_kw)

(***************************************************************************)
(* A day's tail in PRECHARGE_TARGET mode with 1-hour steps and grid        *)
(* charging DISABLED: the trace starts at an hour before the target hour   *)
(* with the SoC below the target and runs hour by hour to hour 23.  call   *)
(* also keeps the first hour, and whether so far every hour before the     *)
(* target hour offered the required rate and no hour discharged.           *)
(***************************************************************************)
PrechargeConfigs ==
    {[BaseConfig EXCEPT !.charging_mode = "PRECHARGE_TARGET",
                        !.power_rating_kw = pr,
                        !.precharge_target_soc_kwh = target,
                        !.min_direct_pv_share = sh[1], !.active_pv2bess_share = sh[2]] :
        pr \in {R(4), R(20)}, target \in {R(8), R(10)}, sh \in SharePairs}

\* (target - soc)/(charge_efficiency*(precharge_target_hour - hour)), hour < target hour
RequiredRate(cfg, soc, hour) ==
    RDiv(RMax(RSub(cfg.precharge_target_soc_kwh, soc), Zero),
         RMul(cfg.charge_efficiency, R(cfg.precharge_target_hour - hour)))

\* The PV available for charging and the power rating each cover the required rate.
RateCovered(cfg, solar, load, soc, hour) ==
    /\ RGe(AvailableForCharging(cfg, solar, load), RequiredRate(cfg, soc, hour))
    /\ RGe(cfg.power_rating_kw, RequiredRate(cfg, soc, hour))

InitPrecharge ==
    /\ config \in PrechargeConfigs
    /\ BatteryConfigValid(config)
    /\ hours_per_step = R(1)
    /\ previous_soc_kwh \in
           {x \in SocGrid(config.usable_capacity_kwh, SocSteps) :
                RLt(x, config.precharge_target_soc_kwh)}
    /\ t = 0
    /\ \E h0 \in (config.precharge_target_hour - MaxSteps) ..
                 (config.precharge_target_hour - 1) :
          /\ n_hours = 24 - h0
          /\ call = [op |-> "none", result |-> [status |-> "ok"], start_hour |-> h0,
                     covered |-> TRUE, no_discharge |-> TRUE]

PrechargeHour ==
    /\ t < n_hours
    /\ call.result.status = "ok"
    /\ \E solar_gen_kw \in SolarInputs, load_kw \in {Zero, R(3)} :
          LET hour == call.start_hour + t
          IN  \E r \in {dispatch_single_timestep(solar_gen_kw, load_kw, previous_soc_kwh,
                                                 hour, config, FALSE, FALSE,
                                                 hours_per_step, Some(t))} :
                  /\ call' = [op |-> "dispatch_single_timestep",
                              solar_gen_kw |-> solar_gen_kw, load_kw |-> load_kw,
                              previous_soc_kwh |-> previous_soc_kwh, hour |-> hour,
                              is_peak_period |-> FALSE, is_sunday |-> FALSE,
                              step_hours |-> hours_per_step, timestep |-> Some(t),
                              result |-> r, start_hour |-> call.start_hour,
                              covered |->
                                  /\ call.covered
                                  /\ hour < config.precharge_target_hour =>
                                         RateCovered(config, solar_gen_kw, load_kw,
                                                     previous_soc_kwh, hour),
                              no_discharge |->
                                  /\ call.no_discharge
                                  /\ r.status = "ok"
                                  /\ r.value.discharged_kw = Zero]
                  /\ previous_soc_kwh' =
                         IF r.status = "ok" THEN r.value.soc_kwh ELSE previous_soc_kwh
                  /\ t' = IF r.status = "ok" THEN t + 1 ELSE t
    /\ UNCHANGED <<config, hours_per_step, n_hours>>

SpecPrecharge == InitPrecharge /\ [][PrechargeHour]_vars

\* C26: in PRECHARGE_TARGET mode with 1-hour steps, grid charging DISABLED and no
\* discharge, on a trace that starts before the target hour T with the SoC below
\* a target within capacity: if in every hour up to T-1 the PV available for
\* charging and the power rating each cover the required rate, then the SoC at
\* the end of hour T-1 equals precharge_target_soc_kwh, it never exceeded the
\* target on the way, and pv_charged_kw is 0 in every hour from T to 23.
C26_PrechargeReachesTarget ==
    (call.op = "dispatch_single_timestep" /\ call.covered /\ call.no_discharge) =>
        /\ call.result.status = "ok"
        /\ RLe(call.result.value.soc_kwh, config.precharge_target_soc_kwh)
        /\ call.hour = config.precharge_target_hour - 1 =>
               call.result.value.soc_kwh = config.precharge_target_soc_kwh
        /\ call.hour >= config.precharge_target_hour =>
               call.result.value.pv_charged_kw = Zero

\* C26 witness: a trace that started two hours before the target hour, charged
\* at the required rate in both, and has reached hour 23 without charging again.
C26_Witness ==
    /\ call.op = "dispatch_single_timestep"
    /\ call.covered
    /\ call.no_discharge
    /\ call.start_hour = config.precharge_target_hour - 2
    /\ call.hour = 23
    /\ RGt(call.solar_gen_kw, Zero)
    /\ call.result.status = "ok"
    /\ call.result.value.soc_kwh = config.precharge_target_soc_kwh

\* pv_charged_kw + grid_charged_kw of the returned BatteryState
ChargingPower == RAdd(call.result.value.pv_charged_kw, call.result.value.grid_charged_kw)

\* C27 as stated: no returned BatteryState has both pv_charged_kw +
\* grid_charged_kw > 0 and discharged_kw > 0, so charging plus discharging never
\* exceeds power_rating_kw.
C27_NeverChargesAndDischarges ==
    DispatchReturned =>
        /\ ~ (RGt(ChargingPower, Zero) /\ RGt(call.result.value.discharged_kw, Zero))
        /\ RLe(RAdd(ChargingPower, call.result.value.discharged_kw), config.power_rating_kw)

\* C27 as amended: a BatteryState may charge and discharge in the same timestep;
\* the charging power pv_charged_kw + grid_charged_kw and the discharging power
\* discharged_kw are each within power_rating_kw.
C27_EachDirectionWithinRating ==
    DispatchReturned =>
        /\ RLe(ChargingPower, config.power_rating_kw)
        /\ RLe(call.result.value.discharged_kw, config.power_rating_kw)

\* C27 witness: a step that charges and discharges, the two together exceeding
\* the power rating.
C27_Witness ==
    /\ DispatchReturned
    /\ RGt(ChargingPower, Zero)
    /\ RGt(call.result.value.discharged_kw, Zero)
    /\ RGt(RAdd(ChargingPower, call.result.value.discharged_kw), config.power_rating_kw)

(***************************************************************************)
(* Single dispatch steps over the minimum direct-PV shares 0, 1/2 and 1.   *)
(***************************************************************************)
DirectShareConfigs ==
    {[BaseConfig EXCEPT !.strategy_mode = sm, !.charging_mode = cm,
                        !.min_direct_pv_share = share, !.active_pv2bess_share = active,
                        !.grid_charge_mode = g[1], !.grid_charge_capacity_kw = g[2]] :
        sm \in StrategyMode, cm \in ChargingMode, share \in {Zero, Q(1, 2), R(1)},
        active \in {Q(1, 2), R(1)}, g \in {<<"DISABLED", Zero>>, <<"TO_FULL", R(2)>>}}

SpecDirectShare ==
    InitRun(DirectShareConfigs, {Q(1, 2), R(1)}, 1, 2) /\ [][DispatchStep]_vars

\* C28: for every returned BatteryState, with shares in [0, 1], the PV left after
\* charging, solar - pv_charged_kw, is at least min(solar, load*min_direct_pv_share),
\* and so is the direct PV consumption; when solar <= load*min_direct_pv_share
\* nothing is diverted to the battery.
C28_MinimumDirectShare ==
    ( /\ DispatchReturned
      /\ Within(config.min_direct_pv_share, Zero, R(1))
      /\ Within(config.active_pv2bess_share, Zero, R(1)) )
    => LET pv == call.result.value.pv_charged_kw
           min_pv_to_load == RMul(call.load_kw, config.min_direct_pv_share)
           least == RMin(call.solar_gen_kw, min_pv_to_load)
           direct == calculate_direct_pv_consumption(call.solar_gen_kw, call.load_kw, pv)
       IN  /\ RGe(RSub(call.solar_gen_kw, pv), least)
           /\ direct.status = "ok"
           /\ RGe(direct.value, least)
           /\ RLe(call.solar_gen_kw, min_pv_to_load) => pv = Zero

\* C28 witness: inside the charge window with room in the battery, 4 kW of solar
\* against a reserved 6 kW all goes to the load.
C28_Witness ==
    /\ DispatchReturned
    /\ config.charging_mode = "TIME_WINDOW"
    /\ call.hour = 10
    /\ ~ call.is_peak_period
    /\ RLt(call.previous_soc_kwh, config.usable_capacity_kwh)
    /\ call.solar_gen_kw = R(4)
    /\ call.load_kw = R(6)
    /\ config.min_direct_pv_share = R(1)
    /\ call.result.value.pv_charged_kw = Zero

(***************************************************************************)
(* Draining: zero solar in every hour, a constant positive load, grid      *)
(* charging DISABLED, the hours advancing round the clock.  call also      *)
(* keeps the constant load, the first hour, the first SoC, and whether     *)
(* every call so far was permitted to discharge.                           *)
(***************************************************************************)
\* st is <<strategy_mode, when_needed, after_sunset, peak_mode>>.
DrainConfigs ==
    {[BaseConfig EXCEPT !.strategy_mode = st[1], !.when_needed = st[2],
                        !.after_sunset = st[3], !.peak_mode = st[4],
                        !.charge_efficiency = e[1], !.discharge_efficiency = e[2]] :
        st \in {<<"ARBITRAGE", TRUE, FALSE, TRUE>>, <<"ARBITRAGE", FALSE, TRUE, FALSE>>,
                <<"PEAK_SHAVING", TRUE, FALSE, TRUE>>},
        e \in EfficiencyPairs}

InitDrain ==
    /\ config \in DrainConfigs
    /\ BatteryConfigValid(config)
    /\ hours_per_step \in {R(1), R(2)}
    /\ n_hours = MaxDrainSteps
    /\ previous_soc_kwh \in SocGrid(config.usable_capacity_kwh, SocSteps)
    /\ t = 0
    /\ \E load_kw \in {R(1), R(3), R(6)}, h0 \in {12, 20} :
          call = [op |-> "none", result |-> [status |-> "ok"], load_kw |-> load_kw,
                  start_hour |-> h0, start_soc |-> previous_soc_kwh, permitted |-> TRUE]

DrainHour ==
    /\ t < n_hours
    /\ call.result.status = "ok"
    /\ LET hour == (call.start_hour + t) % 24
       IN  \E r \in {dispatch_single_timestep(Zero, call.load_kw, previous_soc_kwh, hour,
                                              config, FALSE, FALSE, hours_per_step,
                                              Some(t))} :
               /\ call' = [op |-> "dispatch_single_timestep",
                           solar_gen_kw |-> Zero, load_kw |-> call.load_kw,
                           previous_soc_kwh |-> previous_soc_kwh, hour |-> hour,
                           is_peak_period |-> FALSE, is_sunday |-> FALSE,
                           step_hours |-> hours_per_step, timestep |-> Some(t),
                           result |-> r, start_hour |-> call.start_hour,
                           start_soc |-> call.start_soc,
                           permitted |->
                               /\ call.permitted
                               /\ r.status = "ok"
                               /\ r.value.discharge_permitted]
               /\ previous_soc_kwh' =
                      IF r.status = "ok" THEN r.value.soc_kwh ELSE previous_soc_kwh
               /\ t' = IF r.status = "ok" THEN t + 1 ELSE t
    /\ UNCHANGED <<config, hours_per_step, n_hours>>

SpecDrain == InitDrain /\ [][DrainHour]_vars

\* A permitted step takes min(load, power_rating_kw)*step_hours/discharge_efficiency
\* out of a battery that holds at least as much; the least number of such steps
\* that empties a battery holding start.
DrainStepsNeeded(cfg, start, load, step) ==
    LET per_step == RDiv(RMul(RMin(load, cfg.power_rating_kw), step),
                         cfg.discharge_efficiency)
        x == RDiv(start, per_step)
    IN  -((-x.n) \div x.d)

ConditionOrder == <<"when_needed", "after_sunset", "optimize", "peak">>

\* The conditions active in the dispatch step recorded in call: the arbitrage
\* conditions that hold, or in PEAK_SHAVING the single demand-target condition.
StepActiveNames ==
    IF config.strategy_mode = "PEAK_SHAVING"
    THEN IF RGt(GridLoadAfterSolar, config.demand_target_kw) THEN {"when_needed"} ELSE {}
    ELSE ActiveNames(config, call.hour, call.load_kw, call.solar_gen_kw,
                     call.is_peak_period, call.is_sunday)

\* C30: in every returned BatteryState discharge_permitted is true exactly when
\* active_discharge_conditions is non-empty, discharged_kw > 0 implies
\* discharge_permitted, the list holds each active condition once in the order
\* when_needed, after_sunset, optimize, peak, and in PEAK_SHAVING it is empty or
\* exactly [when_needed].
C30_PermissionMatchesConditions ==
    DispatchReturned =>
        LET s == call.result.value
            list == s.active_discharge_conditions
            IsActive(n) == n \in StepActiveNames
        IN  /\ s.discharge_permitted = (list # << >>)
            /\ RGt(s.discharged_kw, Zero) => s.discharge_permitted
            /\ list = SelectSeq(ConditionOrder, IsActive)
            /\ config.strategy_mode = "PEAK_SHAVING" =>
                   list \in {<< >>, <<"when_needed">>}

\* C30 witness: an arbitrage step in which all four conditions hold and the
\* battery discharges.
C30_Witness ==
    /\ DispatchReturned
    /\ config.strategy_mode = "ARBITRAGE"
    /\ call.result.value.active_discharge_conditions = ConditionOrder
    /\ call.result.value.discharge_permitted
    /\ RGt(call.result.value.discharged_kw, Zero)

====
